---- MODULE Spec2Model ----
(***************************************************************************)
(* Retrieval-quality pipeline of enterprise_rag:                           *)
(*   - TextSplitter           (api/services/text_splitter.py)               *)
(*   - LLMService.calculate_confidence (api/services/llm_service.py)        *)
(*   - medical_chat           (api/routers/medical.py)                      *)
(*                                                                         *)
(* Text is a sequence of one-character strings.  The module is ASCII, so   *)
(* the non-ASCII characters the regular expressions of the splitter name   *)
(* are written with ASCII stand-ins:                                       *)
(*     "#"  a sentence terminator, one of the three full-width marks of    *)
(*          the class in _split_long_paragraph (the newline is "\n")       *)
(*     "@"  the ordinal prefix of the first heading pattern                *)
(*     "="  a Chinese numeral of the heading patterns                      *)
(*     "$"  a chapter/section/part word of the first heading pattern       *)
(*     ","  the enumeration comma of the second heading pattern            *)
(*     "["  "]"  the bracket pair of the fifth heading pattern             *)
(*     "*"  one of the two non-ASCII bullet glyphs ("-" is itself)         *)
(*     "a"  a lower-case letter, also any other ordinary character         *)
(*     "A"  an upper-case letter,  "1"  a digit                            *)
(***************************************************************************)
EXTENDS Integers, Sequences, FiniteSets, TLC

(***************************************************************************)
(* Character classes of Python's re / str.strip over the model alphabet.   *)
(***************************************************************************)
Whitespace == {" ", "\t", "\n", "\r"}
Digits == {"1"}
Terminators == {"#", "\n"}

IsSpace(c) == c \in Whitespace

Range(seq) == { seq[i] : i \in 1..Len(seq) }

\* s[i..] and s[..i] slices with Python's clamping
Drop(s, n) == IF n >= Len(s) THEN <<>> ELSE SubSeq(s, n + 1, Len(s))
Take(s, n) == IF n >= Len(s) THEN s ELSE SubSeq(s, 1, n)

\* the positions lo..hi of a text, in order
Positions(lo, hi) == [k \in 1..(hi - lo + 1) |-> lo + k - 1]

\* index of the first position >= i whose character is not in class, Len(s)+1 if none
SkipClass(s, i, class) ==
    LET rest == SelectSeq(Positions(i, Len(s)), LAMBDA k : s[k] \notin class)
    IN  IF rest = <<>> THEN (IF i > Len(s) THEN i ELSE Len(s) + 1) ELSE rest[1]

\* index of the last position <= i whose character is not whitespace, 0 if none
SkipSpaceBack(s, i) ==
    LET rest == SelectSeq(Positions(1, i), LAMBDA k : ~IsSpace(s[k]))
    IN  IF rest = <<>> THEN 0 ELSE rest[Len(rest)]

\* str.strip()
Strip(s) ==
    LET b == SkipClass(s, 1, Whitespace)
        e == SkipSpaceBack(s, Len(s))
    IN  IF b > e THEN <<>> ELSE SubSeq(s, b, e)

(***************************************************************************)
(* TextSplitter._preprocess_text: four substitutions, then strip.          *)
(***************************************************************************)
Blanks == {" ", "\t"}

\* re.sub(r'[ \t]+', ' ', text): each run of blanks becomes its first, as a space
CollapseBlanks(s) ==
    LET kept == SelectSeq(Positions(1, Len(s)),
                          LAMBDA k : ~(s[k] \in Blanks /\ k > 1 /\ s[k - 1] \in Blanks))
    IN  [j \in 1..Len(kept) |-> IF s[kept[j]] \in Blanks THEN " " ELSE s[kept[j]]]

\* re.sub(r'\n{3,}', '\n\n', text): each run of newlines keeps its first two
CollapseNewlines(s) ==
    LET kept == SelectSeq(Positions(1, Len(s)),
                          LAMBDA k : ~(s[k] = "\n" /\ k > 2 /\ s[k - 1] = "\n" /\ s[k - 2] = "\n"))
    IN  [j \in 1..Len(kept) |-> s[kept[j]]]

\* text.replace('\r', '')
RemoveCR(s) == SelectSeq(s, LAMBDA c : c # "\r")

\* index of the last newline of s[lo..hi], 0 if there is none
LastNewline(s, lo, hi) ==
    LET nl == SelectSeq(Positions(lo, hi), LAMBDA k : s[k] = "\n")
    IN  IF nl = <<>> THEN 0 ELSE nl[Len(nl)]

\* end of the leftmost-greedy match of \n\s*\d+\s*\n that starts at i, 0 if none
PageNumberMatchEnd(s, i) ==
    IF s[i] # "\n" THEN 0
    ELSE LET w1 == SkipClass(s, i + 1, Whitespace)
             d  == SkipClass(s, w1, Digits)
             w2 == SkipClass(s, d, Whitespace)
         IN  IF d = w1 THEN 0 ELSE LastNewline(s, d, w2 - 1)

\* re.sub(r'\n\s*\d+\s*\n', '\n', text) on s[i..]: one step per match, the matches
\* taken leftmost first and not overlapping
RECURSIVE RemovePageNumbersFrom(_, _)
RemovePageNumbersFrom(s, i) ==
    LET starts == SelectSeq(Positions(i, Len(s)),
                            LAMBDA k : PageNumberMatchEnd(s, k) > 0)
    IN  IF starts = <<>> THEN Drop(s, i - 1)
        ELSE SubSeq(s, i, starts[1] - 1) \o <<"\n">>
             \o RemovePageNumbersFrom(s, PageNumberMatchEnd(s, starts[1]) + 1)

_preprocess_text(text) ==
    LET t1 == CollapseBlanks(text)
        t2 == CollapseNewlines(t1)
        t3 == RemoveCR(t2)
        t4 == RemovePageNumbersFrom(t3, 1)
    IN  Strip(t4)

\* re.split(r'\n{2,}', cleaned_text): the pieces between the maximal runs of two or
\* more newlines
SplitParagraphs(s) ==
    LET n == Len(s)
        starts == SelectSeq(Positions(1, n),
                     LAMBDA k : /\ s[k] = "\n"
                                /\ k < n /\ s[k + 1] = "\n"
                                /\ (k = 1 \/ s[k - 1] # "\n"))
        m == Len(starts)
    IN  [j \in 1..(m + 1) |->
            SubSeq(s, IF j = 1 THEN 1 ELSE SkipClass(s, starts[j - 1], {"\n"}),
                      IF j = m + 1 THEN n ELSE starts[j] - 1)]

(***************************************************************************)
(* TextSplitter._is_heading and _is_list_item: re.match of each pattern on *)
(* text.strip().                                                           *)
(***************************************************************************)
Upper == {"A"}
Lower == {"a"}
Numerals == {"="}
ChapterWords == {"$"}
Bullets == {"*", "-"}
Markers == {".", ")"}

_is_heading(text) ==
    LET t == Strip(text)
        n == Len(t)
        \* ^@[=\d]+[$]
        h1 == /\ n >= 1 /\ t[1] = "@"
              /\ LET j == SkipClass(t, 2, Numerals \cup Digits)
                 IN  j > 2 /\ j <= n /\ t[j] \in ChapterWords
        \* ^[=]+,
        h2 == LET j == SkipClass(t, 1, Numerals)
              IN  j > 1 /\ j <= n /\ t[j] = ","
        \* ^\d+[\.\.]
        h3 == LET j == SkipClass(t, 1, Digits)
              IN  j > 1 /\ j <= n /\ t[j] = "."
        \* ^[A-Z][A-Z\s]+$
        h4 == /\ n >= 2 /\ t[1] \in Upper
              /\ SkipClass(t, 2, Upper \cup Whitespace) = n + 1
        \* ^\[.+\]$
        h5 == /\ n >= 3 /\ t[1] = "[" /\ t[n] = "]"
              /\ \A k \in 2..(n - 1) : t[k] # "\n"
    IN  h1 \/ h2 \/ h3 \/ h4 \/ h5

_is_list_item(text) ==
    LET t == Strip(text)
        n == Len(t)
        \* ^\s*[*\-]\s+
        l1 == n >= 2 /\ t[1] \in Bullets /\ IsSpace(t[2])
        \* ^\s*\d+[\.\)]\s+
        l2 == LET j == SkipClass(t, 1, Digits)
              IN  j > 1 /\ j + 1 <= n /\ t[j] \in Markers /\ IsSpace(t[j + 1])
        \* ^\s*[a-z][\.\)]\s+
        l3 == n >= 3 /\ t[1] \in Lower /\ t[2] \in Markers /\ IsSpace(t[3])
    IN  l1 \/ l2 \/ l3

(***************************************************************************)
(* TextSplitter._merge_short_paragraphs (min_length defaults to 50)        *)
(***************************************************************************)
MinMergeLength == 50

\* the loop body for paragraphs[i..], with the loop's two variables
RECURSIVE MergeFrom(_, _, _, _, _)
MergeFrom(paragraphs, i, merged, current_paragraph, min_length) ==
    IF i > Len(paragraphs)
    THEN IF current_paragraph # <<>> THEN Append(merged, current_paragraph) ELSE merged
    ELSE LET next_paragraph == Strip(paragraphs[i])
         IN  IF /\ Len(current_paragraph) < min_length
                /\ ~_is_heading(next_paragraph)
                /\ ~_is_list_item(next_paragraph)
             THEN MergeFrom(paragraphs, i + 1, merged,
                            current_paragraph \o <<" ">> \o next_paragraph, min_length)
             ELSE MergeFrom(paragraphs, i + 1,
                            IF current_paragraph # <<>>
                            THEN Append(merged, current_paragraph) ELSE merged,
                            next_paragraph, min_length)

\* paragraphs[0] raises IndexError on an empty list; it is read past the guard only
MergeRaises(paragraphs) == ~(paragraphs = <<>>) /\ Len(paragraphs) < 1

_merge_short_paragraphs(paragraphs, min_length) ==
    IF paragraphs = <<>> THEN <<>>
    ELSE MergeFrom(paragraphs, 2, <<>>, Strip(paragraphs[1]), min_length)

(***************************************************************************)
(* TextSplitter._force_split, _add_overlap, _split_long_paragraph          *)
(***************************************************************************)
\* range(0, len(text), max_length) raises ValueError when the step is zero
ForceSplitRaises(text, max_length) == max_length = 0

\* the text as one piece, whatever its length
ForceSplitWhole(text, max_length) == <<text>>

\* text[i:i + max_length] for i in range(0, len(text), max_length); a negative step
\* gives an empty range
_force_split(text, max_length) ==
    IF max_length <= 0 THEN <<>>
    ELSE [k \in 1..((Len(text) + max_length - 1) \div max_length) |->
            Take(Drop(text, (k - 1) * max_length), max_length)]

\* the first overlap characters of the previous chunk
PrevChunkStart(prev, overlap) == Take(prev, overlap)

\* chunks[i - 1][-overlap:] if len(chunks[i - 1]) > overlap else chunks[i - 1]
PrevChunkEnd(prev, overlap) ==
    IF Len(prev) > overlap THEN Drop(prev, Len(prev) - overlap) ELSE prev

\* chunks[0] raises IndexError on an empty list; it is read past the guard only
AddOverlapRaisesNoGuard(chunks, overlap) == ~(overlap <= 0) /\ Len(chunks) < 1
AddOverlapRaises(chunks, overlap) ==
    ~(overlap <= 0 \/ Len(chunks) <= 1) /\ Len(chunks) < 1

_add_overlap(chunks, overlap) ==
    IF overlap <= 0 \/ Len(chunks) <= 1 THEN chunks
    ELSE [i \in 1..Len(chunks) |->
            IF i = 1 THEN chunks[1]
            ELSE PrevChunkEnd(chunks[i - 1], overlap) \o <<" ">> \o chunks[i]]

\* re.split(r'([#\n])', paragraph): the pieces and the captured terminators alternate
SplitSentences(s) ==
    LET n == Len(s)
        at == SelectSeq(Positions(1, n), LAMBDA k : s[k] \in Terminators)
        m == Len(at)
    IN  [j \in 1..(2 * m + 1) |->
            IF j % 2 = 0 THEN <<s[at[j \div 2]]>>
            ELSE SubSeq(s, IF j = 1 THEN 1 ELSE at[(j - 1) \div 2] + 1,
                           IF j = 2 * m + 1 THEN n ELSE at[(j + 1) \div 2] - 1)]

\* the pieces without the terminators that follow them
CombineSentencesNoTerminator(sentences) ==
    [k \in 1..((Len(sentences) - 1) \div 2) |-> Strip(sentences[2 * k - 1])]

\* for i in range(0, len(sentences) - 1, 2): (sentences[i] + sentences[i + 1]).strip()
CombineSentences(sentences) ==
    [k \in 1..((Len(sentences) - 1) \div 2) |->
        Strip(sentences[2 * k - 1] \o sentences[2 * k])]

\* the packing loop over combined_sentences[i..]; acc holds the loop's variables
RECURSIVE PackFrom(_, _, _, _)
PackFrom(combined, i, acc, chunk_size) ==
    IF i > Len(combined) THEN acc
    ELSE LET sentence == combined[i]
         IN  IF sentence = <<>> THEN PackFrom(combined, i + 1, acc, chunk_size)
             ELSE IF Len(acc.current_chunk) + Len(sentence) <= chunk_size
             THEN PackFrom(combined, i + 1,
                           [acc EXCEPT !.current_chunk = @ \o sentence], chunk_size)
             ELSE LET flushed == IF acc.current_chunk # <<>>
                                 THEN Append(acc.chunks, Strip(acc.current_chunk))
                                 ELSE acc.chunks
                  IN  IF Len(sentence) > chunk_size
                      THEN IF ForceSplitRaises(sentence, chunk_size)
                           THEN [acc EXCEPT !.raised = TRUE]
                           ELSE PackFrom(combined, i + 1,
                                  [acc EXCEPT !.chunks = flushed
                                                \o _force_split(sentence, chunk_size),
                                              !.current_chunk = <<>>], chunk_size)
                      ELSE PackFrom(combined, i + 1,
                                  [acc EXCEPT !.chunks = flushed,
                                              !.current_chunk = sentence], chunk_size)

\* the chunks of a long paragraph before the overlap is added
PackSentences(paragraph, chunk_size) ==
    LET combined == CombineSentences(SplitSentences(paragraph))
        acc == PackFrom(combined, 1,
                        [chunks |-> <<>>, current_chunk |-> <<>>, raised |-> FALSE],
                        chunk_size)
    IN  [raised |-> acc.raised,
         chunks |-> IF acc.current_chunk # <<>>
                    THEN Append(acc.chunks, Strip(acc.current_chunk))
                    ELSE acc.chunks]

_split_long_paragraph(paragraph, chunk_size, chunk_overlap) ==
    LET packed == PackSentences(paragraph, chunk_size)
        raised == \/ packed.raised
                  \/ chunk_overlap > 0 /\ AddOverlapRaises(packed.chunks, chunk_overlap)
    IN  [raised |-> raised,
         chunks |-> IF raised THEN <<>>
                    ELSE IF chunk_overlap > 0
                    THEN _add_overlap(packed.chunks, chunk_overlap)
                    ELSE packed.chunks]

(***************************************************************************)
(* TextSplitter.split_text                                                 *)
(***************************************************************************)
MinChunkLength == 20

\* step 4: the loop over merged_paragraphs[i..]
RECURSIVE ChunkParagraphsFrom(_, _, _, _, _)
ChunkParagraphsFrom(merged, i, acc, chunk_size, chunk_overlap) ==
    IF i > Len(merged) THEN acc
    ELSE LET paragraph == merged[i]
         IN  IF Len(paragraph) <= chunk_size
             THEN ChunkParagraphsFrom(merged, i + 1,
                      [acc EXCEPT !.chunks = Append(@, Strip(paragraph))],
                      chunk_size, chunk_overlap)
             ELSE LET sub == _split_long_paragraph(paragraph, chunk_size, chunk_overlap)
                  IN  IF sub.raised THEN [acc EXCEPT !.raised = TRUE]
                      ELSE ChunkParagraphsFrom(merged, i + 1,
                               [acc EXCEPT !.chunks = @ \o sub.chunks],
                               chunk_size, chunk_overlap)

\* step 5: chunk and len(chunk.strip()) > 20
KeepChunkNonEmpty(chunk) == chunk # <<>>
KeepChunkMergeLength(chunk) == chunk # <<>> /\ Len(Strip(chunk)) > MinMergeLength
KeepChunk(chunk) == chunk # <<>> /\ Len(Strip(chunk)) > MinChunkLength

\* the locals of one call: cleaned_text, merged_paragraphs, final_chunks, result
split_text(text, chunk_size, chunk_overlap) ==
    IF text = <<>>
    THEN [raised |-> FALSE, cleaned_text |-> <<>>, merged_paragraphs |-> <<>>,
          final_chunks |-> <<>>, result |-> <<>>]
    ELSE LET cleaned_text == _preprocess_text(text)
             paragraphs == SplitParagraphs(cleaned_text)
             merged_paragraphs == _merge_short_paragraphs(paragraphs, MinMergeLength)
             final == ChunkParagraphsFrom(merged_paragraphs, 1,
                          [chunks |-> <<>>, raised |-> MergeRaises(paragraphs)],
                          chunk_size, chunk_overlap)
         IN  [raised |-> final.raised,
              cleaned_text |-> cleaned_text,
              merged_paragraphs |-> merged_paragraphs,
              final_chunks |-> final.chunks,
              result |-> IF final.raised THEN <<>>
                         ELSE SelectSeq(final.chunks, KeepChunk)]

(***************************************************************************)
(* LLMService.calculate_confidence.                                        *)
(* A distance is an integer number of thousandths; 1 - d/2 and the bonus   *)
(* are computed in units of 1/2000 (so that halving is exact) and the      *)
(* result is a number of hundredths, as round(similarity, 2) gives.        *)
(***************************************************************************)
MinOf(seq) == CHOOSE m \in Range(seq) : \A x \in Range(seq) : m <= x
Max2(a, b) == IF a >= b THEN a ELSE b
Min2(a, b) == IF a <= b THEN a ELSE b

\* round(x, 2) of x >= 0 given in units of 1/2000: the nearest hundredth, an exact
\* tie going to the even one
Round2(x) ==
    LET q == x \div 20
        r == x % 20
    IN  IF r < 10 THEN q
        ELSE IF r > 10 THEN q + 1
        ELSE IF q % 2 = 0 THEN q ELSE q + 1

\* sum(1 for d in distances if d < 0.5)
HighQualityMatches(distances) ==
    Cardinality({ i \in 1..Len(distances) : distances[i] < 500 })

calculate_confidence(distances) ==
    IF distances = <<>> THEN 0
    ELSE LET min_distance == MinOf(distances)
             similarity == Max2(0, 2000 - min_distance)
         IN  Round2(IF HighQualityMatches(distances) >= 2
                    THEN Min2(2000, similarity + 200)
                    ELSE similarity)

(***************************************************************************)
(* medical_chat (api/routers/medical.py).                                  *)
(* A hit of the vector index is [document, meta, dist]; meta is            *)
(* [id, department], id = NoId standing for metadata without the key 'id'  *)
(* (meta.get('id', '') is then '').                                        *)
(***************************************************************************)
SIMILARITY_THRESHOLD == 200
DefaultMaxResults == 5
NoId == ""
NoDepartment == "none"

\* ChromaService.search: collection.query(n_results, where) returns the n_results
\* nearest hits among those the where condition admits, nearest first
Search(index, n_results, where) ==
    Take(IF where = NoDepartment THEN index
         ELSE SelectSeq(index, LAMBDA h : h.meta.department = where),
         n_results)

\* the module global settings of api/core/config.py: the Settings object built at
\* import from the defaults and the environment; its SIMILARITY_THRESHOLD is a number
\* of thousandths
VARIABLE settings

DefaultSettings == [SIMILARITY_THRESHOLD |-> SIMILARITY_THRESHOLD]

\* similarity = 1.0 - dist; similarity >= settings.SIMILARITY_THRESHOLD
PassesThresholdNoConversion(dist) == dist >= settings.SIMILARITY_THRESHOLD
PassesThreshold(dist) == 1000 - dist >= settings.SIMILARITY_THRESHOLD

\* the loop over zip(documents, metadatas, distances)[i..] with its three lists
RECURSIVE FilterFrom(_, _, _, _, _)
FilterFrom(documents, metadatas, distances, i, acc) ==
    IF i > Len(documents) \/ i > Len(metadatas) \/ i > Len(distances) THEN acc
    ELSE IF PassesThreshold(distances[i])
         THEN FilterFrom(documents, metadatas, distances, i + 1,
                  [filtered_docs |-> Append(acc.filtered_docs, documents[i]),
                   filtered_metas |-> Append(acc.filtered_metas, metadatas[i]),
                   filtered_dists |-> Append(acc.filtered_dists, distances[i])])
         ELSE FilterFrom(documents, metadatas, distances, i + 1, acc)

FilterHits(documents, metadatas, distances) ==
    FilterFrom(documents, metadatas, distances, 1,
               [filtered_docs |-> <<>>, filtered_metas |-> <<>>, filtered_dists |-> <<>>])

\* Reference(title=f"... {doc_id}", department=meta.get('department', ...))
MakeReference(meta) == [title |-> meta.id, department |-> meta.department]

\* the loop over filtered_metas[i..] with unique_docs and references
RECURSIVE BuildReferencesFrom(_, _, _, _)
BuildReferencesFrom(filtered_metas, i, unique_docs, references) ==
    IF i > Len(filtered_metas) THEN references
    ELSE LET meta == filtered_metas[i]
             doc_id == meta.id
         IN  IF doc_id # NoId /\ doc_id \notin unique_docs
             THEN BuildReferencesFrom(filtered_metas, i + 1, unique_docs \cup {doc_id},
                                      Append(references, MakeReference(meta)))
             ELSE BuildReferencesFrom(filtered_metas, i + 1, unique_docs, references)

\* the same loop without the test on unique_docs
BuildReferencesNoDedup(filtered_metas) ==
    LET kept == SelectSeq(filtered_metas, LAMBDA meta : meta.id # NoId)
    IN  [j \in 1..Len(kept) |-> MakeReference(kept[j])]

BuildReferences(filtered_metas) == BuildReferencesFrom(filtered_metas, 1, {}, <<>>)

\* request.options.max_results if request.options else 5
MaxResultsOf(request) ==
    IF request.has_options THEN request.max_results ELSE DefaultMaxResults

\* {"department": ...} if request.options and request.options.department
WhereOf(request) ==
    IF request.has_options THEN request.department ELSE NoDepartment

NoCall == [raised |-> "none", documents |-> <<>>, metadatas |-> <<>>, distances |-> <<>>,
           filtered_docs |-> <<>>, filtered_metas |-> <<>>, filtered_dists |-> <<>>,
           answer_called |-> FALSE, context_docs |-> <<>>,
           confidence_called |-> FALSE, confidence_distances |-> <<>>]

ErrorResponse == [status |-> 500, answer |-> "error", references |-> <<>>, confidence |-> 0]

\* ChatResponse with references=[] and confidence=0.0
EmptyResponse(answer) ==
    [status |-> 200, answer |-> answer, references |-> <<>>, confidence |-> 0]

\* if not filtered_docs: return the empty response
SkipEmptyFilterCheck(filtered_docs) == FALSE
NoRelevantDocuments(filtered_docs) == filtered_docs = <<>>

\* The response of medical_chat and the collaborator calls it made.  An exception of
\* a collaborator ends in the HTTP 500 of the except branch: search_raises for
\* chroma_service.search, encode_raises for embedding_service.encode_single, which is
\* called after the two early returns only.
medical_chat(index, request, search_raises, encode_raises) ==
    LET hits == Search(index, MaxResultsOf(request), WhereOf(request))
        documents == [i \in 1..Len(hits) |-> hits[i].document]
        metadatas == [i \in 1..Len(hits) |-> hits[i].meta]
        distances == [i \in 1..Len(hits) |-> hits[i].dist]
        found == [NoCall EXCEPT !.documents = documents, !.metadatas = metadatas,
                                !.distances = distances]
        f == FilterHits(documents, metadatas, distances)
        references == BuildReferences(f.filtered_metas)
    IN  IF search_raises
        THEN [response |-> ErrorResponse, call |-> [NoCall EXCEPT !.raised = "search"]]
        ELSE IF documents = <<>>
        THEN [response |-> EmptyResponse("no_documents"), call |-> NoCall]
        ELSE IF NoRelevantDocuments(f.filtered_docs)
        THEN [response |-> EmptyResponse("no_relevant_documents"), call |-> found]
        ELSE IF encode_raises
        THEN [response |-> ErrorResponse,
              call |-> [found EXCEPT !.raised = "encode",
                                     !.filtered_docs = f.filtered_docs,
                                     !.filtered_metas = f.filtered_metas,
                                     !.filtered_dists = f.filtered_dists]]
        ELSE [response |-> [status |-> 200, answer |-> "generated",
                            references |-> Take(references, MaxResultsOf(request)),
                            confidence |-> calculate_confidence(f.filtered_dists)],
              call |-> [found EXCEPT !.filtered_docs = f.filtered_docs,
                                     !.filtered_metas = f.filtered_metas,
                                     !.filtered_dists = f.filtered_dists,
                                     !.answer_called = TRUE,
                                     !.context_docs = f.filtered_docs,
                                     !.confidence_called = TRUE,
                                     !.confidence_distances = f.filtered_dists]]

(***************************************************************************)
(* EvaluationService (evaluation_service.py).                              *)
(* A metric is kept as the fraction [num, den] in lowest terms of the      *)
(* counts it is computed from; the float the code holds is the double      *)
(* nearest to that fraction (QuotientError gives its rounding).  Sums,     *)
(* products and quotients of metrics are taken on the fractions.           *)
(* Document names are strings; a list of documents is a sequence.          *)
(***************************************************************************)
RECURSIVE Gcd(_, _)
Gcd(a, b) == IF b = 0 THEN a ELSE Gcd(b, a % b)

\* the float n / d of two counts, d > 0
Frac(n, d) == [num |-> n \div Gcd(n, d), den |-> d \div Gcd(n, d)]
Zero == Frac(0, 1)
FAdd(a, b) == Frac(a.num * b.den + b.num * a.den, a.den * b.den)
FMul(a, b) == Frac(a.num * b.num, a.den * b.den)
FDiv(a, b) == Frac(a.num * b.den, a.den * b.num)

Pow2(i) == 2 ^ i

\* The rounding of the double division a / b, for counts 0 < a <= b < 2^15 in lowest
\* terms:
\* with t the least exponent such that a * 2^t >= b, the double is
\* (a * 2^(t + 52) + delta) / (b * 2^(t + 52)), its 53-bit significand being the
\* integer nearest to a * 2^(t + 52) / b (no tie: b has an odd factor or delta = 0).
QuotientError(a, b) ==
    LET t == Cardinality({ i \in 0..15 : a * Pow2(i) < b })
        r0 == a * Pow2(t) - b
        x13 == Pow2(13) % b
        x26 == (x13 * x13) % b
        x52 == (x26 * x26) % b
        r == (r0 * x52) % b
    IN  [t |-> t, delta |-> IF 2 * r < b THEN 0 - r ELSE b - r]

\* len(retrieved_docs) and len(ground_truth_docs), the denominators
DistinctCount(docs) == Cardinality(Range(docs))
PrecisionDenominator(retrieved_docs) == Len(retrieved_docs)
DistinctGroundTruth(docs) == Cardinality(Range(docs))
RecallDenominator(ground_truth_docs) == Len(ground_truth_docs)

\* f1_score: 0.0 if precision + recall == 0, else 2 * (precision * recall) / (precision + recall)
ArithmeticMean(precision, recall) == FDiv(FAdd(precision, recall), Frac(2, 1))
SumScore(precision, recall) == FAdd(precision, recall)
F1Score(precision, recall) ==
    IF FAdd(precision, recall).num = 0 THEN Zero
    ELSE FDiv(FMul(Frac(2, 1), FMul(precision, recall)), FAdd(precision, recall))

\* EvaluationService.calculate_metrics; raised is a ZeroDivisionError
calculate_metrics(retrieved_docs, ground_truth_docs) ==
    IF retrieved_docs = <<>>
    THEN [raised |-> FALSE, precision |-> Zero, recall |-> Zero, f1_score |-> Zero]
    ELSE IF ground_truth_docs = <<>>
    THEN [raised |-> FALSE, precision |-> Zero, recall |-> Zero, f1_score |-> Zero]
    ELSE LET relevant_retrieved == Range(retrieved_docs) \cap Range(ground_truth_docs)
             relevant_count == Cardinality(relevant_retrieved)
             raises == \/ PrecisionDenominator(retrieved_docs) = 0
                       \/ RecallDenominator(ground_truth_docs) = 0
             precision == Frac(relevant_count, PrecisionDenominator(retrieved_docs))
             recall == Frac(relevant_count, RecallDenominator(ground_truth_docs))
         IN  IF raises
             THEN [raised |-> TRUE, precision |-> Zero, recall |-> Zero, f1_score |-> Zero]
             ELSE [raised |-> FALSE, precision |-> precision, recall |-> recall,
                   f1_score |-> F1Score(precision, recall)]

\* list(a_set): the elements in the iteration order of the set, which the hash seed of
\* the process fixes; hash_order lists all document names in that order
ListOf(S, hash_order) == SelectSeq(hash_order, LAMBDA d : d \in S)

(***************************************************************************)
(* The AI-assisted audit.  The collaborator llm_service is absent (None),  *)
(* raises (LLMService itself has no _generate_raw_answer, so it raises an  *)
(* AttributeError), or returns a response.  A response is a sequence of    *)
(* tokens:  "{" "}" ","  the JSON punctuation;  "r" a member               *)
(* "rating": "good";  "c" a member "comment": "text";  "l" the key         *)
(* "relevance_labels": , which an object follows;  "t" a member            *)
(* "doc 1": true;  "x" any other text.                                     *)
(***************************************************************************)
NoLlm == [kind |-> "none", response |-> <<>>]
RaisingLlm == [kind |-> "raises", response |-> <<>>]
Responding(response) == [kind |-> "responds", response |-> response]

\* re.search(r'\{.*\}', response, re.DOTALL): from the first "{" to the last "}"
JsonMatch(response) ==
    LET opens == SelectSeq(Positions(1, Len(response)), LAMBDA k : response[k] = "{")
        closes == SelectSeq(Positions(1, Len(response)), LAMBDA k : response[k] = "}")
    IN  IF opens = <<>> \/ closes = <<>> \/ closes[Len(closes)] < opens[1]
        THEN [found |-> FALSE, group |-> <<>>]
        ELSE [found |-> TRUE, group |-> SubSeq(response, opens[1], closes[Len(closes)])]

\* json.loads: one step of the parser, on token tok in state st; depth counts the
\* objects open.  Members of the outermost object set the values data.get reads; "t"
\* is a member no data.get reads; the object after a key "l" of the outermost object
\* is the value of "relevance_labels", "{}" until it holds a member.
JsonStep(st, tok) ==
    LET to(q) == [st EXCEPT !.q = q]
        inner(next) == IF st.depth >= 2 THEN [next EXCEPT !.labels = "{t}"] ELSE next
    IN  CASE st.q = "start" /\ tok = "{" -> [to("open") EXCEPT !.depth = 1]
          [] st.q \in {"open", "comma"} /\ tok = "r" ->
                IF st.depth = 1 THEN [to("member") EXCEPT !.rating = "good"]
                ELSE inner(to("member"))
          [] st.q \in {"open", "comma"} /\ tok = "c" ->
                IF st.depth = 1 THEN [to("member") EXCEPT !.comment = "text"]
                ELSE inner(to("member"))
          [] st.q \in {"open", "comma"} /\ tok = "t" -> inner(to("member"))
          [] st.q \in {"open", "comma"} /\ tok = "l" -> inner(to("key"))
          [] st.q = "key" /\ tok = "{" ->
                IF st.depth = 1 THEN [to("open") EXCEPT !.depth = 2, !.labels = "{}"]
                ELSE [to("open") EXCEPT !.depth = st.depth + 1]
          [] st.q \in {"open", "member"} /\ tok = "}" ->
                IF st.depth = 1 THEN [to("end") EXCEPT !.depth = 0]
                ELSE [to("member") EXCEPT !.depth = st.depth - 1]
          [] st.q = "member" /\ tok = "," -> to("comma")
          [] OTHER -> to("error")

RECURSIVE JsonLoadsFrom(_, _, _)
JsonLoadsFrom(tokens, i, st) ==
    IF i > Len(tokens) THEN st
    ELSE JsonLoadsFrom(tokens, i + 1, JsonStep(st, tokens[i]))

\* data.get("rating", "N/A"), data.get("comment", ""), data.get("relevance_labels", {})
JsonLoads(tokens) ==
    JsonLoadsFrom(tokens, 1, [q |-> "start", depth |-> 0, rating |-> "N/A", comment |-> "",
                              labels |-> "{}"])

\* EvaluationService._parse_ai_response
_parse_ai_response(response) ==
    LET json_match == JsonMatch(response)
        data == JsonLoads(json_match.group)
    IN  IF ~json_match.found
        THEN [raised |-> FALSE, rating |-> "N/A", comment |-> "format_error", labels |-> "{}"]
        ELSE IF data.q # "end"
        THEN [raised |-> FALSE, rating |-> "N/A", comment |-> "parse_failed", labels |-> "{}"]
        ELSE [raised |-> FALSE, rating |-> data.rating, comment |-> data.comment,
              labels |-> data.labels]

\* EvaluationService._ai_evaluate: except Exception turns a raise of the collaborator
\* into the sentinel
AiEvaluateUncaught(llm) ==
    IF llm.kind = "raises"
    THEN [raised |-> TRUE, rating |-> "None", comment |-> "None", labels |-> "None"]
    ELSE _parse_ai_response(llm.response)
_ai_evaluate(llm) ==
    IF llm.kind = "raises"
    THEN [raised |-> FALSE, rating |-> "N/A", comment |-> "evaluate_failed", labels |-> "{}"]
    ELSE _parse_ai_response(llm.response)

\* result.ai_rating, result.ai_comment, result.ai_relevance_labels = ...
SetAiFieldsAndResetMetrics(result, ai) ==
    [result EXCEPT !.ai_rating = ai.rating, !.ai_comment = ai.comment,
                   !.ai_relevance_labels = ai.labels,
                   !.precision = Zero, !.recall = Zero, !.f1_score = Zero]
SetAiFields(result, ai) ==
    [result EXCEPT !.ai_rating = ai.rating, !.ai_comment = ai.comment,
                   !.ai_relevance_labels = ai.labels]

\* the outcome of a call that raised
NoResult ==
    [raised |-> TRUE, query |-> "", retrieved_docs |-> <<>>, ground_truth_docs |-> <<>>,
     relevant_retrieved |-> <<>>, missed_docs |-> <<>>,
     precision |-> Zero, recall |-> Zero, f1_score |-> Zero,
     ai_rating |-> "None", ai_comment |-> "None", ai_relevance_labels |-> "None"]

\* EvaluationService.evaluate_retrieval, of a service constructed with llm
evaluate_retrieval(query, retrieved_docs, ground_truth_docs, use_ai_rating, llm, hash_order) ==
    LET metrics == calculate_metrics(retrieved_docs, ground_truth_docs)
        result ==
            [raised |-> FALSE, query |-> query, retrieved_docs |-> retrieved_docs,
             ground_truth_docs |-> ground_truth_docs,
             relevant_retrieved |->
                 ListOf(Range(retrieved_docs) \cap Range(ground_truth_docs), hash_order),
             missed_docs |->
                 ListOf(Range(ground_truth_docs) \ Range(retrieved_docs), hash_order),
             precision |-> metrics.precision, recall |-> metrics.recall,
             f1_score |-> metrics.f1_score,
             ai_rating |-> "None", ai_comment |-> "None", ai_relevance_labels |-> "None"]
    IN  IF metrics.raised THEN NoResult
        ELSE IF use_ai_rating /\ llm.kind # "none"
        THEN IF _ai_evaluate(llm).raised THEN NoResult
             ELSE SetAiFields(result, _ai_evaluate(llm))
        ELSE result

\* round(x, 4) of a metric 0 <= x <= 1, in units of 1/10000.  round rounds the float
\* correctly.  Where the fraction is a decimal tie (its denominator is then a multiple
\* of 32) the result follows the side of the tie the double nearest to the fraction
\* lies on, and is the even neighbour if that double is the tie itself; a float that
\* the code reached through several roundings may lie on the other side.
Round4(x) ==
    LET r0 == x.num % x.den
        r1 == (r0 * 10) % x.den
        r2 == (r1 * 10) % x.den
        r3 == (r2 * 10) % x.den
        r4 == (r3 * 10) % x.den
        floor == (x.num \div x.den) * 10000 + ((r0 * 10) \div x.den) * 1000
                 + ((r1 * 10) \div x.den) * 100 + ((r2 * 10) \div x.den) * 10
                 + ((r3 * 10) \div x.den)
        up == IF 2 * r4 # x.den THEN 2 * r4 > x.den
              ELSE IF QuotientError(x.num, x.den).delta = 0 THEN floor % 2 = 1
              ELSE QuotientError(x.num, x.den).delta > 0
    IN  IF up THEN floor + 1 ELSE floor

\* the loop of batch_evaluate: results.append(self.evaluate_retrieval(...)) per case;
\* llms[i] is how the collaborator behaves in the call for case i
EvaluateCasesReversed(test_cases, use_ai_rating, llms, hash_order) ==
    [i \in 1..Len(test_cases) |->
        evaluate_retrieval(test_cases[Len(test_cases) + 1 - i].query,
                           test_cases[Len(test_cases) + 1 - i].retrieved_docs,
                           test_cases[Len(test_cases) + 1 - i].ground_truth_docs,
                           use_ai_rating, llms[Len(test_cases) + 1 - i], hash_order)]
EvaluateCases(test_cases, use_ai_rating, llms, hash_order) ==
    [i \in 1..Len(test_cases) |->
        evaluate_retrieval(test_cases[i].query, test_cases[i].retrieved_docs,
                           test_cases[i].ground_truth_docs,
                           use_ai_rating, llms[i], hash_order)]

\* total_precision, total_recall, total_f1 after the first n results
RECURSIVE TotalOf(_, _, _)
TotalOf(results, field, n) ==
    IF n = 0 THEN Zero ELSE FAdd(TotalOf(results, field, n - 1), results[n][field])

\* the sum over the first n results of the length of a list field
RECURSIVE CountOf(_, _, _)
CountOf(results, field, n) ==
    IF n = 0 THEN 0 ELSE CountOf(results, field, n - 1) + Len(results[n][field])

\* total / count if count > 0 else 0.0
PooledOf(results, field) ==
    LET n == Len(results)
        relevant == CountOf(results, "relevant_retrieved", n)
        p == IF CountOf(results, "retrieved_docs", n) = 0 THEN Zero
             ELSE Frac(relevant, CountOf(results, "retrieved_docs", n))
        r == IF CountOf(results, "ground_truth_docs", n) = 0 THEN Zero
             ELSE Frac(relevant, CountOf(results, "ground_truth_docs", n))
    IN  IF field = "precision" THEN p ELSE IF field = "recall" THEN r ELSE F1Score(p, r)
AverageOf(results, field) ==
    IF Len(results) > 0
    THEN FDiv(TotalOf(results, field, Len(results)), Frac(Len(results), 1))
    ELSE Zero

\* one entry of detailed_results
DetailOf(r) ==
    [query |-> r.query, precision |-> Round4(r.precision), recall |-> Round4(r.recall),
     f1_score |-> Round4(r.f1_score), ai_rating |-> r.ai_rating,
     ai_comment |-> r.ai_comment, relevant_count |-> Len(r.relevant_retrieved),
     missed_count |-> Len(r.missed_docs)]

\* EvaluationService.batch_evaluate
batch_evaluate(test_cases, use_ai_rating, llms, hash_order) ==
    LET results == EvaluateCases(test_cases, use_ai_rating, llms, hash_order)
    IN  IF \E i \in 1..Len(results) : results[i].raised
        THEN [raised |-> TRUE, total_cases |-> 0, average_precision |-> 0,
              average_recall |-> 0, average_f1_score |-> 0, detailed_results |-> <<>>]
        ELSE [raised |-> FALSE,
              total_cases |-> Len(test_cases),
              average_precision |-> Round4(AverageOf(results, "precision")),
              average_recall |-> Round4(AverageOf(results, "recall")),
              average_f1_score |-> Round4(AverageOf(results, "f1_score")),
              detailed_results |-> [i \in 1..Len(results) |-> DetailOf(results[i])]]

(***************************************************************************)
(* The module globals _text_splitter and _llm_service with their accessors *)
(* get_text_splitter and get_llm_service: None until the first accessor    *)
(* call stores an instance built from fixed arguments.                     *)
(***************************************************************************)
DefaultChunkSize == 500
DefaultChunkOverlap == 50

NoTextSplitter == [created |-> FALSE, chunk_size |-> 0, chunk_overlap |-> 0]
NewTextSplitter ==
    [created |-> TRUE, chunk_size |-> DefaultChunkSize, chunk_overlap |-> DefaultChunkOverlap]
NoLlmService == [created |-> FALSE, prompt_template |-> ""]
NewLlmService == [created |-> TRUE, prompt_template |-> "template"]

\* get_llm_service(): the value of the global after the call, which is also returned
get_llm_service(global) == IF global.created THEN global ELSE NewLlmService

\* a collaborator that answers with a JSON object holding a rating
LlmOfResponding(llm_service) ==
    IF llm_service.created THEN Responding(<<"{", "r", "}">>) ELSE NoLlm

\* the collaborator an EvaluationService gets from get_llm_service(): LLMService has
\* no _generate_raw_answer, so the call in _ai_evaluate raises AttributeError
LlmOf(llm_service) == IF llm_service.created THEN RaisingLlm ELSE NoLlm

\* the locals of a call: its parameters, bound when the call starts
NoFrame == [text |-> <<>>, distances |-> <<>>, case |-> [query |-> "", retrieved_docs |-> <<>>,
                                                       ground_truth_docs |-> <<>>]]
NoOutcome == [chunks |-> <<>>, confidence |-> 0, evaluation |-> NoResult]

\* the frame the body of thread t's call works on
LastFrame(ths, t) == ths[Len(ths)].frame
OwnFrame(ths, t) == ths[t].frame

(***************************************************************************)
(* upload_document (api/routers/knowledge.py) and                          *)
(* ChromaService.add_documents (embedding_service.py).                     *)
(* The relational store is [knowledge_bases, documents], two sets of rows  *)
(* with the primary key id; the collection of the vector index is the      *)
(* sequence of its entries [id, document, metadata] in insertion order.    *)
(* "general" stands for the default category of `category or ...`, "none"  *)
(* for a form field that was not sent (None).                              *)
(***************************************************************************)
NoCategory == "none"
NoKbId == "none"
NoDocId == "none"
DefaultCategory == "general"

\* category or <default>
CategoryOf(category) == IF category = NoCategory THEN DefaultCategory ELSE category

\* get_text_splitter(): the value of the global after the call, which is also returned
get_text_splitter(global) == IF global.created THEN global ELSE NewTextSplitter

\* KnowledgeBaseModel(id=actual_kb_id, ...)
NewKnowledgeBase(actual_kb_id, category) ==
    [id |-> actual_kb_id, name |-> "default", category |-> CategoryOf(category),
     description |-> "created automatically"]

\* Document(id=doc_id, title=file.filename, content=text_content, ...)
NewDocument(doc_id, filename, text_content, category, actual_kb_id) ==
    [id |-> doc_id, title |-> filename, content |-> text_content, author |-> "uploader",
     department |-> CategoryOf(category), category |-> CategoryOf(category),
     kb_id |-> actual_kb_id, status |-> "active"]

\* the primary keys of a table
IdsOf(rows) == { r.id : r \in rows }

\* ids numbered from one
ChunkIdsFromOne(doc_id, n) == [i \in 1..n |-> doc_id \o "_" \o ToString(i)]

\* [f"{doc_id}_{i}" for i in range(len(paragraphs))]
ChunkIds(doc_id, n) == [i \in 1..n |-> doc_id \o "_" \o ToString(i - 1)]

\* {"category": category or ..., "department": category or ..., "id": doc_id}
ChunkMetadata(doc_id, category) ==
    [category |-> CategoryOf(category), department |-> CategoryOf(category), id |-> doc_id]

\* ChromaService.add_documents: nothing for an empty list, else collection.add
add_documents(coll, documents, metadatas, ids) ==
    IF documents = <<>> THEN coll
    ELSE coll \o [i \in 1..Len(documents) |->
                    [id |-> ids[i], document |-> documents[i], metadata |-> metadatas[i]]]

\* the responses of upload_document: the dictionary it returns, or the HTTPException
\* of its outer except
NoUploadResponse == [status |-> 0, document_id |-> NoDocId, paragraphs_count |-> 0]
UploadFailed == [status |-> 500, document_id |-> NoDocId, paragraphs_count |-> 0]
UploadSucceeded(doc_id, paragraphs) ==
    [status |-> 200, document_id |-> doc_id, paragraphs_count |-> Len(paragraphs)]

(***************************************************************************)
(* State.                                                                  *)
(*   text, chunk_size, chunk_overlap : the argument and the configuration  *)
(*       of one TextSplitter.split_text call                               *)
(*   split_pc  : "call" before the call, "return" after it                 *)
(*   split_out : the locals and the result of the call                     *)
(*   distances, conf_pc, confidence : the argument, the position and the   *)
(*       result of a direct LLMService.calculate_confidence call           *)
(*   index : the hits of the vector index for the query, nearest first     *)
(*   chat_pc, chat_request, chat_out : the position, the request and the   *)
(*       outcome (response, collaborator calls) of one medical_chat call   *)
(*   settings : the settings object of api/core/config.py (declared with   *)
(*       medical_chat, which reads it)                                     *)
(*   eval_in, eval_pc, eval_out : the arguments (with the collaborator of  *)
(*       the service and the hash order of the process), the position and  *)
(*       the result of one EvaluationService.evaluate_retrieval call       *)
(*   batch_in, batch_pc, batch_out : the same for one batch_evaluate call  *)
(*   _text_splitter, _llm_service : the module globals of text_splitter.py *)
(*       and llm_service.py, None or the shared instance                   *)
(*   threads : the request-handling threads, each with its operation, its  *)
(*       argument, its position, the instance it obtained, the data of its *)
(*       own call frame and its result                                     *)
(*   db : the relational store, its tables knowledge_bases and documents   *)
(*   collection : the entries of the collection of the vector index        *)
(*   uploads : the upload_document requests in progress, each with its     *)
(*       form fields, its position, its locals and its response (the local *)
(*       paragraphs is held by its length, paragraphs_count)               *)
(***************************************************************************)
VARIABLES text, chunk_size, chunk_overlap, split_pc, split_out,
          distances, conf_pc, confidence,
          index, chat_pc, chat_request, chat_out,
          eval_in, eval_pc, eval_out,
          batch_in, batch_pc, batch_out,
          _text_splitter, _llm_service, threads,
          db, collection, uploads

splitVars == <<text, chunk_size, chunk_overlap, split_pc, split_out>>
confVars == <<distances, conf_pc, confidence>>
chatVars == <<index, chat_pc, chat_request, chat_out, settings>>
evalVars == <<eval_in, eval_pc, eval_out>>
batchVars == <<batch_in, batch_pc, batch_out>>
threadVars == <<_text_splitter, _llm_service, threads>>
uploadVars == <<db, collection, uploads>>
vars == <<splitVars, confVars, chatVars, evalVars, batchVars, threadVars, uploadVars>>

NoSplit == [raised |-> FALSE, cleaned_text |-> <<>>, merged_paragraphs |-> <<>>,
            final_chunks |-> <<>>, result |-> <<>>]
NoRequest == [has_options |-> FALSE, max_results |-> DefaultMaxResults,
              department |-> NoDepartment]

\* the components a specification does not exercise
IdleSplit ==
    /\ text = <<>> /\ chunk_size = 500 /\ chunk_overlap = 50
    /\ split_pc = "idle" /\ split_out = NoSplit
IdleConf == distances = <<>> /\ conf_pc = "idle" /\ confidence = 0
IdleChat ==
    /\ index = <<>> /\ chat_pc = "idle" /\ chat_request = NoRequest
    /\ chat_out = [response |-> EmptyResponse("none"), call |-> NoCall]
    /\ settings = DefaultSettings

NoCase == [query |-> "", retrieved_docs |-> <<>>, ground_truth_docs |-> <<>>]
NoEvaluation ==
    [query |-> "", retrieved_docs |-> <<>>, ground_truth_docs |-> <<>>,
     use_ai_rating |-> FALSE, llm |-> NoLlm, hash_order |-> <<>>]
NoBatch == [test_cases |-> <<>>, use_ai_rating |-> FALSE, llms |-> <<>>, hash_order |-> <<>>]
IdleEval == eval_in = NoEvaluation /\ eval_pc = "idle" /\ eval_out = NoResult
IdleBatch ==
    /\ batch_in = NoBatch /\ batch_pc = "idle"
    /\ batch_out = batch_evaluate(<<>>, FALSE, <<>>, <<>>)
IdleThreads ==
    _text_splitter = NoTextSplitter /\ _llm_service = NoLlmService /\ threads = <<>>
EmptyDb == [knowledge_bases |-> {}, documents |-> {}]
IdleUpload == db = EmptyDb /\ collection = <<>> /\ uploads = <<>>
IdleOthers == IdleEval /\ IdleBatch /\ IdleThreads /\ IdleUpload

(***************************************************************************)
(* SpecSplit: one call of TextSplitter.split_text.                         *)
(* Input texts: up to MaxSegs segments, each a short token or a run of     *)
(* LongRun ordinary characters (longer than the 20 of the final filter;    *)
(* two of them longer than the 50 of the merge), and a few longer texts.    *)
(***************************************************************************)
MaxSegs == 4
LongRun == 30

Run(c, n) == [k \in 1..n |-> c]

Segments ==
    { <<"a">>, Run("a", LongRun), <<" ">>, <<"\n">>, <<"\n", "\n">>, <<"#">>, <<"1">>,
      <<"\r">>, <<".">>, <<"-", " ">> }

RECURSIVE Concat(_)
Concat(segs) == IF segs = <<>> THEN <<>> ELSE Head(segs) \o Concat(Tail(segs))

Texts == { Concat(segs) : segs \in UNION { [1..n -> Segments] : n \in 0..MaxSegs } }

\* texts of extracted documents: a paragraph one short of the merge length before a
\* blank paragraph; a two-sentence paragraph before a short one; a page number between
\* two paragraphs; two page numbers on consecutive lines; carriage returns between
\* blanks and in line ends
ScenarioTexts ==
    { Run("a", MinMergeLength - 1) \o <<"\n", "\n", " ", "\n", "\n">> \o Run("a", LongRun),
      Run("a", LongRun) \o <<"#">> \o Run("a", LongRun) \o <<"#", "\n", "\n">>
          \o Run("a", LongRun),
      Run("a", LongRun) \o <<"\n", "\n", "1", "\n", "\n">> \o Run("a", LongRun),
      Run("a", LongRun) \o <<"\n", "1", "\n", "1", "\n">> \o Run("a", LongRun),
      Run("a", LongRun) \o <<" ", "\r", " ">> \o Run("a", LongRun),
      Run("a", LongRun) \o <<"\r", "\n", "\r", "\n", "\r", "\n">> \o Run("a", LongRun) }

\* configurations: chunk_size > 0, chunk_overlap >= 0
ChunkSizes == {LongRun + 1, 3 * LongRun + 10}
ChunkOverlaps == {0, 5}

InitSplit ==
    /\ text \in Texts \cup ScenarioTexts
    /\ chunk_size \in ChunkSizes
    /\ chunk_overlap \in ChunkOverlaps
    /\ split_pc = "call"
    /\ split_out = NoSplit
    /\ IdleConf /\ IdleChat /\ IdleOthers

\* one call of TextSplitter.split_text
SplitText ==
    /\ split_pc = "call"
    /\ split_out' = split_text(text, chunk_size, chunk_overlap)
    /\ split_pc' = "return"
    /\ UNCHANGED <<text, chunk_size, chunk_overlap, confVars, chatVars, evalVars, batchVars,
                   threadVars, uploadVars>>

NextSplit == SplitText

SpecSplit == InitSplit /\ [][NextSplit]_vars

(***************************************************************************)
(* SpecConf: direct calls of LLMService.calculate_confidence, with any     *)
(* list of numbers the caller passes.  The distances are off the points    *)
(* where 1 - d/2 is a decimal tie of round(_, 2), which no binary float    *)
(* hits exactly.                                                           *)
(***************************************************************************)
MaxDistances == 3

DistanceGrid == {-1000, -500, 0, 104, 496, 500, 600, 1000, 2500}

DistanceLists == UNION { [1..n -> DistanceGrid] : n \in 0..MaxDistances }

InitConf ==
    /\ distances \in DistanceLists
    /\ conf_pc = "call"
    /\ confidence = 0
    /\ IdleSplit /\ IdleChat /\ IdleOthers

\* one call of calculate_confidence
CalculateConfidence ==
    /\ conf_pc = "call"
    /\ confidence' = calculate_confidence(distances)
    /\ conf_pc' = "return"
    /\ UNCHANGED <<distances, splitVars, chatVars, evalVars, batchVars, threadVars, uploadVars>>

\* a further call, with the list of the call before except that one smallest element
\* is larger
CalculateConfidenceRaised ==
    /\ conf_pc = "return"
    /\ distances # <<>>
    /\ \E i \in 1..Len(distances), v \in DistanceGrid :
          /\ distances[i] = MinOf(distances)
          /\ v > distances[i]
          /\ distances' = [distances EXCEPT ![i] = v]
    /\ confidence' = calculate_confidence(distances')
    /\ UNCHANGED <<conf_pc, splitVars, chatVars, evalVars, batchVars, threadVars, uploadVars>>

NextConf == CalculateConfidence \/ CalculateConfidenceRaised

SpecConf == InitConf /\ [][NextConf]_vars

(***************************************************************************)
(* SpecChat: one medical_chat request against an index of up to MaxHits    *)
(* hits.  The index returns its hits nearest first; its distances are not  *)
(* negative and are off the threshold (the decimal 0.8 is no binary float, *)
(* and 1.0 - dist is exact there, so no hit has 1.0 - dist equal to 0.2).  *)
(***************************************************************************)
MaxHits == 3

DocIds == {"doc_001", "doc_002"}
Departments == {"cardiology", "endocrinology"}
ChunkTexts == <<"chunk1", "chunk2", "chunk3", "chunk4", "chunk5">>
HitDistances == {104, 496, 600, 804}
MaxResultsChoices == {1, 2, DefaultMaxResults}

Metas == [id : DocIds \cup {NoId}, department : Departments]

\* the k-th hit holds the k-th chunk text
Indexes ==
    { [k \in 1..n |-> [document |-> ChunkTexts[k], meta |-> m[k], dist |-> d[k]]] :
        <<n, m, d>> \in
            { <<n, m, d>> \in (0..MaxHits) \X (UNION { [1..j -> Metas] : j \in 0..MaxHits })
                                          \X (UNION { [1..j -> HitDistances] : j \in 0..MaxHits }) :
                /\ Len(m) = n /\ Len(d) = n
                /\ \A k \in 1..(n - 1) : d[k] <= d[k + 1] } }

Requests ==
    {NoRequest} \cup
    [has_options : {TRUE}, max_results : MaxResultsChoices,
     department : Departments \cup {NoDepartment}]

InitChat ==
    /\ index \in Indexes
    /\ chat_pc = "call"
    /\ chat_request = NoRequest
    /\ chat_out = [response |-> EmptyResponse("none"), call |-> NoCall]
    /\ settings = DefaultSettings
    /\ IdleSplit /\ IdleConf /\ IdleOthers

\* one request handled by medical_chat
MedicalChat ==
    /\ chat_pc = "call"
    /\ \E request \in Requests, search_raises \in BOOLEAN, encode_raises \in BOOLEAN :
          /\ chat_request' = request
          /\ chat_out' = medical_chat(index, request, search_raises, encode_raises)
    /\ chat_pc' = "return"
    /\ UNCHANGED <<index, settings, splitVars, confVars, evalVars, batchVars, threadVars, uploadVars>>

NextChat == MedicalChat

SpecChat == InitChat /\ [][NextChat]_vars

(***************************************************************************)
(* SpecThreshold: one medical_chat request in a process whose settings     *)
(* hold any of a few similarity thresholds in [0, 1], against an index of  *)
(* up to MaxHits hits of one document.  A hit at distance exactly          *)
(* 1 - threshold occurs only where both are binary fractions (0.75 and     *)
(* 0.25, 1.0 and 0.0), so that 1.0 - dist >= threshold is exact.           *)
(***************************************************************************)
ThresholdGrid == {0, 200, 205, 250, 1000}
ThresholdDistances == {0, 104, 496, 750, 794, 804, 1000}

ThresholdIndexes ==
    { [k \in 1..Len(d) |->
          [document |-> ChunkTexts[k],
           meta |-> [id |-> "doc_001", department |-> "cardiology"], dist |-> d[k]]] :
        d \in { d \in UNION { [1..j -> ThresholdDistances] : j \in 0..MaxHits } :
                  \A k \in 1..(Len(d) - 1) : d[k] <= d[k + 1] } }

InitThreshold ==
    /\ settings \in [SIMILARITY_THRESHOLD : ThresholdGrid]
    /\ index \in ThresholdIndexes
    /\ chat_pc = "call"
    /\ chat_request = NoRequest
    /\ chat_out = [response |-> EmptyResponse("none"), call |-> NoCall]
    /\ IdleSplit /\ IdleConf /\ IdleOthers

SpecThreshold == InitThreshold /\ [][NextChat]_vars

(***************************************************************************)
(* SpecEval: one call of EvaluationService.evaluate_retrieval.             *)
(* A retrieved list is up to MaxBlocks blocks, each one document or a run  *)
(* of BigRun copies of one (the list may hold a document several times); a *)
(* ground-truth list is up to MaxGroundTruth documents.  The call is made  *)
(* with any such lists and the audit requested of a sample of              *)
(* collaborators, or not requested, or with one of a few cases and any     *)
(* collaborator response of up to MaxParts parts.                          *)
(***************************************************************************)
MaxBlocks == 3
BigRun == 47
MaxGroundTruth == 2
MaxParts == 4

RetrievedNames == {"d1", "d2", "d3"}
GroundTruthNames == {"d1", "d2", "d4"}
HashOrders == { <<"d1", "d2", "d3", "d4">>, <<"d4", "d3", "d2", "d1">> }

RetrievedBlocks == { <<d>> : d \in RetrievedNames } \cup { Run("d3", BigRun) }
RetrievedLists ==
    { Concat(blocks) : blocks \in UNION { [1..n -> RetrievedBlocks] : n \in 0..MaxBlocks } }
GroundTruthLists == UNION { [1..n -> GroundTruthNames] : n \in 0..MaxGroundTruth }

ResponseParts ==
    { <<"{">>, <<"}">>, <<"x">>, <<"r">>, <<",", "c">>, <<"l", "{", "t", "}">>,
      <<",", "l", "{", "t", "}">> }
Responses ==
    { Concat(parts) : parts \in UNION { [1..n -> ResponseParts] : n \in 0..MaxParts } }

SampleLlms == {NoLlm, RaisingLlm, Responding(<<"x">>), Responding(<<"{", "r", "}">>)}
Llms == {NoLlm, RaisingLlm} \cup { Responding(r) : r \in Responses }

\* the cases of the scenarios: one relevant of three, nothing retrieved, all relevant
AuditCases ==
    { [query |-> "qa", retrieved_docs |-> <<"d1", "d2", "d3">>,
       ground_truth_docs |-> <<"d2", "d4">>],
      [query |-> "qb", retrieved_docs |-> <<>>, ground_truth_docs |-> <<"d1">>],
      [query |-> "qc", retrieved_docs |-> <<"d1">>, ground_truth_docs |-> <<"d1">>] }

EvaluationOf(case, use_ai_rating, llm, hash_order) ==
    [query |-> case.query, retrieved_docs |-> case.retrieved_docs,
     ground_truth_docs |-> case.ground_truth_docs, use_ai_rating |-> use_ai_rating,
     llm |-> llm, hash_order |-> hash_order]

InitEval ==
    /\ \/ eval_in \in [query : {"q"}, retrieved_docs : RetrievedLists,
                       ground_truth_docs : GroundTruthLists, use_ai_rating : {TRUE},
                       llm : SampleLlms, hash_order : HashOrders]
       \/ eval_in \in [query : {"q"}, retrieved_docs : RetrievedLists,
                       ground_truth_docs : GroundTruthLists, use_ai_rating : {FALSE},
                       llm : {NoLlm}, hash_order : HashOrders]
       \/ \E case \in AuditCases, llm \in Llms, hash_order \in HashOrders :
             eval_in = EvaluationOf(case, TRUE, llm, hash_order)
    /\ eval_pc = "call"
    /\ eval_out = NoResult
    /\ IdleSplit /\ IdleConf /\ IdleChat /\ IdleBatch /\ IdleThreads /\ IdleUpload

\* one call of evaluate_retrieval
EvaluateRetrieval ==
    /\ eval_pc = "call"
    /\ eval_out' = evaluate_retrieval(eval_in.query, eval_in.retrieved_docs,
                                      eval_in.ground_truth_docs, eval_in.use_ai_rating,
                                      eval_in.llm, eval_in.hash_order)
    /\ eval_pc' = "return"
    /\ UNCHANGED <<eval_in, splitVars, confVars, chatVars, batchVars, threadVars, uploadVars>>

NextEval == EvaluateRetrieval

SpecEval == InitEval /\ [][NextEval]_vars

(***************************************************************************)
(* SpecBatch: one call of EvaluationService.batch_evaluate on up to        *)
(* MaxCases test cases; the collaborator, when the service has one, may    *)
(* behave differently in the call of each case.                            *)
(***************************************************************************)
MaxCases == 2

BatchCases ==
    AuditCases \cup
    { [query |-> "qd", retrieved_docs |-> <<"d1", "d3">>, ground_truth_docs |-> <<"d1">>] }
BatchLlms == {RaisingLlm, Responding(<<"x">>), Responding(<<"{", "r", "}">>)}

InitBatch ==
    /\ \E n \in 0..MaxCases :
          batch_in \in [test_cases : [1..n -> BatchCases], use_ai_rating : BOOLEAN,
                        llms : [1..n -> BatchLlms] \cup {[i \in 1..n |-> NoLlm]},
                        hash_order : HashOrders]
    /\ batch_pc = "call"
    /\ batch_out = batch_evaluate(<<>>, FALSE, <<>>, <<>>)
    /\ IdleSplit /\ IdleConf /\ IdleChat /\ IdleEval /\ IdleThreads /\ IdleUpload

\* one call of batch_evaluate
BatchEvaluate ==
    /\ batch_pc = "call"
    /\ batch_out' = batch_evaluate(batch_in.test_cases, batch_in.use_ai_rating,
                                   batch_in.llms, batch_in.hash_order)
    /\ batch_pc' = "return"
    /\ UNCHANGED <<batch_in, splitVars, confVars, chatVars, evalVars, threadVars, uploadVars>>

NextBatch == BatchEvaluate

SpecBatch == InitBatch /\ [][NextBatch]_vars

(***************************************************************************)
(* SpecThreads: MaxThreads request-handling threads, each making one call  *)
(* of split_text through get_text_splitter(), of calculate_confidence      *)
(* through get_llm_service(), or of evaluate_retrieval on an               *)
(* EvaluationService built with get_llm_service(); their steps interleave  *)
(* in any order.  An accessor is three steps: the test of the global, the  *)
(* assignment to it, and the read that returns it.                         *)
(***************************************************************************)
MaxThreads == 2

ThreadHashOrder == <<"d1", "d2", "d3", "d4">>
ThreadTexts ==
    { Run("a", LongRun) \o <<"\n", "\n", "\n", " ">> \o Run("a", LongRun),
      Run("a", 10 * LongRun) \o <<"#">> \o Run("a", 10 * LongRun) \o <<"#">> }
ThreadDistances == { <<104, 496>> }
ThreadCases == { c \in AuditCases : c.query = "qa" }

ThreadCalls ==
    { [op |-> "split", text |-> t, distances |-> <<>>, case |-> NoFrame.case] :
        t \in ThreadTexts } \cup
    { [op |-> "conf", text |-> <<>>, distances |-> d, case |-> NoFrame.case] :
        d \in ThreadDistances } \cup
    { [op |-> "eval", text |-> <<>>, distances |-> <<>>, case |-> c] : c \in ThreadCases }

NewThread(call) ==
    [op |-> call.op, text |-> call.text, distances |-> call.distances, case |-> call.case,
     pc |-> "get", created |-> FALSE, text_splitter |-> NoTextSplitter,
     llm_service |-> NoLlmService, frame |-> NoFrame, result |-> NoOutcome]

InitThreads ==
    /\ _text_splitter = NoTextSplitter
    /\ _llm_service = NoLlmService
    /\ \E calls \in [1..MaxThreads -> ThreadCalls] :
          threads = [t \in 1..MaxThreads |-> NewThread(calls[t])]
    /\ IdleSplit /\ IdleConf /\ IdleChat /\ IdleEval /\ IdleBatch /\ IdleUpload

OtherVars == <<splitVars, confVars, chatVars, evalVars, batchVars, uploadVars>>

\* if _text_splitter is None / if _llm_service is None
TestGlobal(t) ==
    /\ threads[t].pc = "get"
    /\ threads' = [threads EXCEPT ![t].pc =
          IF threads[t].op = "split"
          THEN (IF _text_splitter.created THEN "return" ELSE "create")
          ELSE (IF _llm_service.created THEN "return" ELSE "create")]
    /\ UNCHANGED <<_text_splitter, _llm_service, OtherVars>>

\* _text_splitter = TextSplitter(chunk_size=500, chunk_overlap=50) / _llm_service = LLMService()
CreateInstance(t) ==
    /\ threads[t].pc = "create"
    /\ IF threads[t].op = "split"
       THEN _text_splitter' = NewTextSplitter /\ UNCHANGED _llm_service
       ELSE _llm_service' = NewLlmService /\ UNCHANGED _text_splitter
    /\ threads' = [threads EXCEPT ![t].pc = "return", ![t].created = TRUE]
    /\ UNCHANGED OtherVars

\* return _text_splitter / return _llm_service
ReturnInstance(t) ==
    /\ threads[t].pc = "return"
    /\ threads' = [threads EXCEPT
          ![t].pc = "call",
          ![t].text_splitter = IF threads[t].op = "split" THEN _text_splitter ELSE @,
          ![t].llm_service = IF threads[t].op = "split" THEN @ ELSE _llm_service]
    /\ UNCHANGED <<_text_splitter, _llm_service, OtherVars>>

\* the call starts: its parameters are bound in its own frame
StartCall(t) ==
    /\ threads[t].pc = "call"
    /\ threads' = [threads EXCEPT
          ![t].pc = "body",
          ![t].frame = [text |-> threads[t].text, distances |-> threads[t].distances,
                        case |-> threads[t].case]]
    /\ UNCHANGED <<_text_splitter, _llm_service, OtherVars>>

\* the body of split_text, calculate_confidence or evaluate_retrieval, to its return
RunCall(t) ==
    /\ threads[t].pc = "body"
    /\ LET frame == OwnFrame(threads, t)
           self == threads[t].text_splitter
       IN  threads' = [threads EXCEPT
             ![t].pc = "done",
             ![t].result =
                CASE threads[t].op = "split" ->
                       [NoOutcome EXCEPT !.chunks =
                           split_text(frame.text, self.chunk_size, self.chunk_overlap).result]
                  [] threads[t].op = "conf" ->
                       [NoOutcome EXCEPT !.confidence = calculate_confidence(frame.distances)]
                  [] OTHER ->
                       [NoOutcome EXCEPT !.evaluation =
                           evaluate_retrieval(frame.case.query, frame.case.retrieved_docs,
                                              frame.case.ground_truth_docs, TRUE,
                                              LlmOf(threads[t].llm_service),
                                              ThreadHashOrder)]]
    /\ UNCHANGED <<_text_splitter, _llm_service, OtherVars>>

NextThreads ==
    \E t \in 1..Len(threads) :
        \/ TestGlobal(t)
        \/ CreateInstance(t)
        \/ ReturnInstance(t)
        \/ StartCall(t)
        \/ RunCall(t)

SpecThreads == InitThreads /\ [][NextThreads]_vars

(***************************************************************************)
(* SpecRouter: one request to the endpoint evaluate_retrieval of            *)
(* api/routers/evaluation.py.  The global _llm_service is None or holds the *)
(* instance an earlier request created; the request carries any lists and   *)
(* either value of use_ai_rating.                                           *)
(***************************************************************************)
InitRouter ==
    /\ _llm_service \in {NoLlmService, NewLlmService}
    /\ eval_in \in [query : {"q"}, retrieved_docs : RetrievedLists,
                    ground_truth_docs : GroundTruthLists, use_ai_rating : BOOLEAN,
                    llm : {NoLlm}, hash_order : HashOrders]
    /\ eval_pc = "request"
    /\ eval_out = NoResult
    /\ _text_splitter = NoTextSplitter /\ threads = <<>>
    /\ IdleSplit /\ IdleConf /\ IdleChat /\ IdleBatch /\ IdleUpload

\* the handler: llm_service = get_llm_service() if request.use_ai_rating else None,
\* then EvaluationService(llm_service=llm_service).evaluate_retrieval(...)
RouterEvaluateRetrieval ==
    /\ eval_pc = "request"
    /\ _llm_service' = IF eval_in.use_ai_rating THEN get_llm_service(_llm_service)
                       ELSE _llm_service
    /\ eval_in' = [eval_in EXCEPT !.llm = IF eval_in.use_ai_rating
                                          THEN LlmOf(_llm_service') ELSE NoLlm]
    /\ eval_out' = evaluate_retrieval(eval_in.query, eval_in.retrieved_docs,
                                      eval_in.ground_truth_docs, eval_in.use_ai_rating,
                                      eval_in'.llm, eval_in.hash_order)
    /\ eval_pc' = "return"
    /\ UNCHANGED <<splitVars, confVars, chatVars, batchVars, _text_splitter, threads,
                   uploadVars>>

NextRouter == RouterEvaluateRetrieval

SpecRouter == InitRouter /\ [][NextRouter]_vars

(***************************************************************************)
(* SpecUpload: MaxUploads concurrent requests to upload_document on empty  *)
(* stores.  The handler is a coroutine: its steps are separated by its     *)
(* awaits (file.read, session.execute, the two session.commit); the block  *)
(* that chunks and indexes has no await and is one step.  A step that      *)
(* calls a collaborator may raise.  uuid4 draws the ids from small pools,  *)
(* so that two requests may draw the same one.                             *)
(***************************************************************************)
MaxUploads == 2

DocIdPool == {"doc_1a", "doc_2b"}
KbIdPool == {"kb_3c"}

UploadRequests ==
    { [filename |-> "a.txt", category |-> "cardiology", kb_id |-> "kb_001",
       text_content |-> Run("a", LongRun) \o <<"\n", "\n", "-", " ">> \o Run("a", LongRun)],
      [filename |-> "b.txt", category |-> NoCategory, kb_id |-> NoKbId,
       text_content |-> <<"a">>],
      [filename |-> "c.txt", category |-> NoCategory, kb_id |-> "kb_001",
       text_content |-> Run("a", LongRun)] }

NewUpload(request) ==
    [filename |-> request.filename, category |-> request.category, kb_id |-> request.kb_id,
     text_content |-> request.text_content, pc |-> "read", doc_id |-> NoDocId,
     actual_kb_id |-> NoKbId, index_raised |-> FALSE,
     response |-> NoUploadResponse]

InitUpload ==
    /\ db = EmptyDb
    /\ collection = <<>>
    /\ \E requests \in [1..MaxUploads -> UploadRequests] :
          uploads = [u \in 1..MaxUploads |-> NewUpload(requests[u])]
    /\ _text_splitter = NoTextSplitter /\ _llm_service = NoLlmService /\ threads = <<>>
    /\ IdleSplit /\ IdleConf /\ IdleChat /\ IdleEval /\ IdleBatch

NotUploadVars == <<splitVars, confVars, chatVars, evalVars, batchVars, _llm_service, threads>>

\* the outer except: HTTPException(status_code=500)
Fail(u) == uploads' = [uploads EXCEPT ![u].pc = "done", ![u].response = UploadFailed]

\* await file.read(), the decoding of the content, and doc_id = f"doc_{uuid4().hex[:8]}"
ReadFile(u) ==
    /\ uploads[u].pc = "read"
    /\ \/ Fail(u)
       \/ \E doc_id \in DocIdPool :
             uploads' = [uploads EXCEPT ![u].pc = "select_kb", ![u].doc_id = doc_id]
    /\ UNCHANGED <<db, collection, _text_splitter, NotUploadVars>>

\* await session.execute(select(KnowledgeBaseModel)...), and actual_kb_id
SelectKnowledgeBase(u) ==
    /\ uploads[u].pc = "select_kb"
    /\ \/ Fail(u)
       \/ /\ uploads[u].kb_id \in IdsOf(db.knowledge_bases)
          /\ uploads' = [uploads EXCEPT ![u].pc = "commit", ![u].actual_kb_id = uploads[u].kb_id]
       \/ /\ uploads[u].kb_id \notin IdsOf(db.knowledge_bases)
          /\ \E generated \in KbIdPool :
                uploads' = [uploads EXCEPT
                   ![u].pc = "create_kb",
                   ![u].actual_kb_id = IF uploads[u].kb_id # NoKbId THEN uploads[u].kb_id
                                        ELSE generated]
    /\ UNCHANGED <<db, collection, _text_splitter, NotUploadVars>>

\* session.add(kb); await session.commit(): the primary key must be new
CreateKnowledgeBase(u) ==
    /\ uploads[u].pc = "create_kb"
    /\ \/ Fail(u) /\ UNCHANGED db
       \/ /\ uploads[u].actual_kb_id \notin IdsOf(db.knowledge_bases)
          /\ db' = [db EXCEPT !.knowledge_bases =
                       @ \cup {NewKnowledgeBase(uploads[u].actual_kb_id, uploads[u].category)}]
          /\ uploads' = [uploads EXCEPT ![u].pc = "commit"]
    /\ UNCHANGED <<collection, _text_splitter, NotUploadVars>>

\* session.add(document); await session.commit(): the primary key must be new
CommitDocument(u) ==
    /\ uploads[u].pc = "commit"
    /\ \/ Fail(u) /\ UNCHANGED db
       \/ /\ uploads[u].doc_id \notin IdsOf(db.documents)
          /\ db' = [db EXCEPT !.documents =
                       @ \cup {NewDocument(uploads[u].doc_id, uploads[u].filename,
                                           uploads[u].text_content, uploads[u].category,
                                           uploads[u].actual_kb_id)}]
          /\ uploads' = [uploads EXCEPT ![u].pc = "index"]
    /\ UNCHANGED <<collection, _text_splitter, NotUploadVars>>

\* the try block that chunks and indexes, its except, and the return, given the
\* splitter that get_text_splitter() returns and the outcome of its split_text
IndexParagraphs(u, text_splitter, split) ==
    \/ \* get_chroma_service() raises
       /\ UNCHANGED <<collection, _text_splitter>>
       /\ uploads' = [uploads EXCEPT
             ![u].pc = "done", ![u].index_raised = TRUE,
             ![u].response = UploadSucceeded(uploads[u].doc_id, <<>>)]
    \/ \* split_text, the encoder or collection.add raises
       /\ split.raised \/ split.result # <<>>
       /\ _text_splitter' = text_splitter
       /\ UNCHANGED collection
       /\ uploads' = [uploads EXCEPT
             ![u].pc = "done", ![u].index_raised = TRUE,
             ![u].response = UploadSucceeded(uploads[u].doc_id, <<>>)]
    \/ /\ ~split.raised
       /\ _text_splitter' = text_splitter
       /\ collection' = add_documents(collection, split.result,
                            [i \in 1..Len(split.result) |->
                                ChunkMetadata(uploads[u].doc_id, uploads[u].category)],
                            ChunkIds(uploads[u].doc_id, Len(split.result)))
       /\ uploads' = [uploads EXCEPT
             ![u].pc = "done",
             ![u].response = UploadSucceeded(uploads[u].doc_id, split.result)]

\* text_splitter = get_text_splitter(); paragraphs = text_splitter.split_text(text_content)
SplitUpload(u, text_splitter) ==
    split_text(uploads[u].text_content, text_splitter.chunk_size, text_splitter.chunk_overlap)

IndexChunks(u) ==
    /\ uploads[u].pc = "index"
    /\ IndexParagraphs(u, get_text_splitter(_text_splitter),
                       SplitUpload(u, get_text_splitter(_text_splitter)))
    /\ UNCHANGED <<db, NotUploadVars>>

NextUpload ==
    \E u \in 1..Len(uploads) :
        \/ ReadFile(u)
        \/ SelectKnowledgeBase(u)
        \/ CreateKnowledgeBase(u)
        \/ CommitDocument(u)
        \/ IndexChunks(u)

SpecUpload == InitUpload /\ [][NextUpload]_vars

(***************************************************************************)
(* Claims about TextSplitter.split_text, checked under SpecSplit.          *)
(***************************************************************************)
Returned == split_pc = "return"
HasParagraphBreak(s) == \E k \in 1..(Len(s) - 1) : s[k] = "\n" /\ s[k + 1] = "\n"

\* C1: every chunk split_text returns has length <= chunk_size + chunk_overlap.
C1_ChunkLengthBound ==
    Returned =>
        \A i \in 1..Len(split_out.result) :
            Len(split_out.result[i]) <= chunk_size + chunk_overlap

\* C2: every returned chunk is non-empty with trimmed length > 20, and no candidate
\* chunk (an element of final_chunks) with trimmed length <= 20 is in the result.
C2_MinChunkLength ==
    Returned =>
        /\ \A i \in 1..Len(split_out.result) :
              /\ split_out.result[i] # <<>>
              /\ Len(Strip(split_out.result[i])) > 20
        /\ \A j \in 1..Len(split_out.final_chunks) :
              Len(Strip(split_out.final_chunks[j])) <= 20
                  => split_out.final_chunks[j] \notin Range(split_out.result)

\* a call that kept one candidate chunk and dropped another
C2_Witness ==
    /\ Returned
    /\ split_out.result # <<>>
    /\ \E j \in 1..Len(split_out.final_chunks) :
          /\ split_out.final_chunks[j] # <<>>
          /\ Len(Strip(split_out.final_chunks[j])) <= 20

\* C3 as stated: a text with 20 < length <= chunk_size gives exactly one chunk, the
\* normalized, trimmed text.
C3_Original ==
    (Returned /\ Len(text) > 20 /\ Len(text) <= chunk_size)
        => split_out.result = << Strip(_preprocess_text(text)) >>

\* C3 amended: a text of length <= chunk_size whose normalized form is longer than 20
\* and has no run of two or more newlines gives exactly one chunk, the normalized form.
C3_SingleChunk ==
    LET normalized == _preprocess_text(text)
    IN  (/\ Returned
         /\ Len(text) <= chunk_size
         /\ Len(normalized) > 20
         /\ ~HasParagraphBreak(normalized))
            => split_out.result = << normalized >>

\* a single-paragraph text that normalization changed, returned as one chunk
C3_Witness ==
    /\ Returned
    /\ Len(text) <= chunk_size
    /\ Len(_preprocess_text(text)) > 20
    /\ ~HasParagraphBreak(_preprocess_text(text))
    /\ _preprocess_text(text) # text
    /\ Len(split_out.result) = 1

\* C4: split_text never raises, and returns the empty list for the empty string and
\* for a text of whitespace only.
C4_NeverFails ==
    Returned =>
        /\ ~split_out.raised
        /\ (Strip(text) = <<>> => split_out.result = <<>>)

\* a non-empty text of whitespace only, returned as the empty list
C4_Witness ==
    /\ Returned
    /\ text # <<>>
    /\ Strip(text) = <<>>
    /\ split_out.result = <<>>
    /\ ~split_out.raised

(***************************************************************************)
(* Claims about medical_chat, checked under SpecChat.                      *)
(***************************************************************************)
ChatReturned == chat_pc = "return"
Call == chat_out.call
Response == chat_out.response

\* the positions of the hits the claim's inequality keeps, and the rank of one
KeptPositions == { k \in 1..Len(Call.distances) :
                     1000 - Call.distances[k] >= SIMILARITY_THRESHOLD }
KeptRank(k) == Cardinality({ j \in KeptPositions : j <= k })

\* C5: the filtered set is exactly the hits with 1 - distance >= SIMILARITY_THRESHOLD,
\* in input order, with documents, metadata and distances aligned.
C5_FilterExact ==
    (ChatReturned /\ Call.raised # "search") =>
        /\ Len(Call.filtered_docs) = Cardinality(KeptPositions)
        /\ Len(Call.filtered_metas) = Cardinality(KeptPositions)
        /\ Len(Call.filtered_dists) = Cardinality(KeptPositions)
        /\ \A k \in KeptPositions :
              /\ Call.filtered_docs[KeptRank(k)] = Call.documents[k]
              /\ Call.filtered_metas[KeptRank(k)] = Call.metadatas[k]
              /\ Call.filtered_dists[KeptRank(k)] = Call.distances[k]

\* a request that kept two hits and removed another
C5_Witness ==
    /\ ChatReturned
    /\ Len(Call.filtered_docs) >= 2
    /\ Len(Call.filtered_docs) < Len(Call.documents)

\* the hits the index returns for the request
RequestHits == Search(index, MaxResultsOf(chat_request), WhereOf(chat_request))

\* C9: with no hits, or with every hit removed by the filter, medical_chat responds
\* normally with no references and confidence 0.0; calculate_confidence of the empty
\* list is 0.0.
C9_EmptyResult ==
    /\ calculate_confidence(<<>>) = 0
    /\ (/\ ChatReturned
        /\ Call.raised # "search"
        /\ \A k \in 1..Len(RequestHits) :
              ~(1000 - RequestHits[k].dist >= SIMILARITY_THRESHOLD))
          => /\ Response.status = 200
             /\ Response.references = <<>>
             /\ Response.confidence = 0

\* a request whose hits were all removed by the filter
C9_Witness ==
    /\ ChatReturned
    /\ Call.documents # <<>>
    /\ Call.filtered_docs = <<>>
    /\ Response.status = 200
    /\ Response.answer = "no_relevant_documents"

\* the ids of the filtered hits, and the first filtered hit with an id
FilteredIds == { Call.filtered_metas[k].id : k \in 1..Len(Call.filtered_metas) } \ {NoId}
FirstWith(id) ==
    CHOOSE k \in 1..Len(Call.filtered_metas) :
        /\ Call.filtered_metas[k].id = id
        /\ \A j \in 1..(k - 1) : Call.filtered_metas[j].id # id

\* C10: the references hold exactly one entry per id of the filtered hits, taken from
\* the first hit with that id, in first-seen order; the distances given to
\* calculate_confidence and the context documents given to generate_answer are those
\* of all filtered hits.
C10_References ==
    (ChatReturned /\ Response.answer = "generated") =>
        /\ Len(Response.references) = Cardinality(FilteredIds)
        /\ \A i \in 1..Len(Response.references) :
              /\ Response.references[i].title \in FilteredIds
              /\ Response.references[i].department =
                    Call.filtered_metas[FirstWith(Response.references[i].title)].department
              /\ \A j \in (i + 1)..Len(Response.references) :
                    FirstWith(Response.references[i].title)
                        < FirstWith(Response.references[j].title)
        /\ Call.confidence_called /\ Call.confidence_distances = Call.filtered_dists
        /\ Call.answer_called /\ Call.context_docs = Call.filtered_docs
        /\ Len(Call.confidence_distances) = Len(Call.filtered_metas)
        /\ Len(Call.context_docs) = Len(Call.filtered_metas)

\* two filtered hits share an id and differ in department, a third has another id
C10_Witness ==
    /\ ChatReturned /\ Response.answer = "generated"
    /\ Len(Response.references) = 2
    /\ Len(Call.filtered_metas) = 3
    /\ \E j, k \in 1..3 :
          /\ j < k
          /\ Call.filtered_metas[j].id = Call.filtered_metas[k].id
          /\ Call.filtered_metas[j].department # Call.filtered_metas[k].department
    /\ Len(Call.confidence_distances) = 3

\* the outcome of the same request, on the same index, with another max_results
WithMaxResults(m) ==
    medical_chat(index, [has_options |-> TRUE, max_results |-> m,
                         department |-> WhereOf(chat_request)], FALSE, FALSE)

\* C11: max_results limits only the references: with the same index hits, the
\* filtered hits, the context documents and the confidence are the same for every
\* max_results.
C11_MaxResultsFrame ==
    (ChatReturned /\ Call.raised = "none") =>
        \A m \in MaxResultsChoices :
            /\ WithMaxResults(m).call.filtered_docs = Call.filtered_docs
            /\ WithMaxResults(m).call.filtered_dists = Call.filtered_dists
            /\ WithMaxResults(m).call.context_docs = Call.context_docs
            /\ WithMaxResults(m).response.confidence = Response.confidence

(***************************************************************************)
(* Claims about EvaluationService.evaluate_retrieval and calculate_metrics,*)
(* checked under SpecEval.                                                 *)
(***************************************************************************)
EvalReturned == eval_pc = "return"
RetrievedSet == Range(eval_in.retrieved_docs)
GroundTruthSet == Range(eval_in.ground_truth_docs)
RelevantCount == Cardinality(RetrievedSet \cap GroundTruthSet)
NoDuplicates(list) == Len(list) = Cardinality(Range(list))

\* C12: relevant_retrieved is set(retrieved) & set(groundTruth) and missed_docs is
\* set(groundTruth) - set(retrieved), each without duplicates, disjoint, with union
\* set(groundTruth); a document retrieved several times counts once in
\* relevant_retrieved and each time in the denominator of precision.
C12_RelevantAndMissed ==
    EvalReturned =>
        /\ Range(eval_out.relevant_retrieved) = RetrievedSet \cap GroundTruthSet
        /\ Range(eval_out.missed_docs) = GroundTruthSet \ RetrievedSet
        /\ NoDuplicates(eval_out.relevant_retrieved)
        /\ NoDuplicates(eval_out.missed_docs)
        /\ Range(eval_out.relevant_retrieved) \cap Range(eval_out.missed_docs) = {}
        /\ Range(eval_out.relevant_retrieved) \cup Range(eval_out.missed_docs)
               = GroundTruthSet
        /\ (eval_in.retrieved_docs # <<>> /\ eval_in.ground_truth_docs # <<>>)
               => eval_out.precision.num * Len(eval_in.retrieved_docs)
                     = Len(eval_out.relevant_retrieved) * eval_out.precision.den

\* a relevant document retrieved several times, and a relevant document missed
C12_Witness ==
    /\ EvalReturned
    /\ eval_out.missed_docs # <<>>
    /\ \E i, j \in 1..Len(eval_in.retrieved_docs) :
          /\ i < j
          /\ eval_in.retrieved_docs[i] = eval_in.retrieved_docs[j]
          /\ eval_in.retrieved_docs[i] \in GroundTruthSet
    /\ Len(eval_out.relevant_retrieved) = 1
    /\ Len(eval_in.retrieved_docs) <= MaxBlocks

\* C13: calculate_metrics never raises; precision = |relevant| / |retrieved| (0.0 if
\* retrieved is empty), recall = |relevant| / |groundTruth| (0.0 if groundTruth is
\* empty), f1 = 2 * precision * recall / (precision + recall) (0.0 if the sum is 0);
\* [d1, d2, d3] against {d2, d4} gives 1/3, 1/2 and 0.4.
C13_Metrics ==
    EvalReturned =>
        /\ ~eval_out.raised
        /\ eval_out.precision =
              IF eval_in.retrieved_docs = <<>> THEN Zero
              ELSE Frac(RelevantCount, Len(eval_in.retrieved_docs))
        /\ eval_out.recall =
              IF eval_in.ground_truth_docs = <<>> THEN Zero
              ELSE Frac(RelevantCount, Len(eval_in.ground_truth_docs))
        /\ IF FAdd(eval_out.precision, eval_out.recall) = Zero
           THEN eval_out.f1_score = Zero
           ELSE FMul(eval_out.f1_score, FAdd(eval_out.precision, eval_out.recall))
                   = FMul(Frac(2, 1), FMul(eval_out.precision, eval_out.recall))
        /\ (/\ eval_in.retrieved_docs = <<"d1", "d2", "d3">>
            /\ eval_in.ground_truth_docs = <<"d2", "d4">>)
               => /\ eval_out.precision = [num |-> 1, den |-> 3]
                  /\ eval_out.recall = [num |-> 1, den |-> 2]
                  /\ eval_out.f1_score = [num |-> 2, den |-> 5]
        /\ eval_in.retrieved_docs = <<>>
               => /\ eval_out.precision = [num |-> 0, den |-> 1]
                  /\ eval_out.recall = [num |-> 0, den |-> 1]
                  /\ eval_out.f1_score = [num |-> 0, den |-> 1]

\* the call of the scenario: one relevant document of three retrieved, one missed
C13_Witness ==
    /\ EvalReturned
    /\ eval_in.retrieved_docs = <<"d1", "d2", "d3">>
    /\ eval_in.ground_truth_docs = <<"d2", "d4">>
    /\ eval_out.f1_score = [num |-> 2, den |-> 5]
    /\ ~eval_out.raised

\* The float product precision * n, for the metric q (a fraction whose float is the
\* double nearest to it) and a count n that q.den divides: whether the double nearest
\* to that product is the integer k = q * n.  With the double of q being
\* (q.num * 2^s + delta) / (q.den * 2^s), s = t + 52, the product is k + g * delta / 2^s
\* for g = n / q.den; doubles next to k lie 2^(B - 53) above it and as far below it,
\* or half as far below if k is a power of two, B being the bit length of k.
ProductIsExact(q, n) ==
    IF q.num = 0 THEN TRUE
    ELSE LET e == QuotientError(q.num, q.den)
             g == n \div q.den
             k == q.num * g
             B == Cardinality({ j \in 0..15 : Pow2(j) <= k })
         IN  IF e.delta >= 0 THEN 4 * g * e.delta <= Pow2(B + e.t)
             ELSE IF k = Pow2(B - 1) THEN 8 * g * (0 - e.delta) <= Pow2(B + e.t)
             ELSE 4 * g * (0 - e.delta) <= Pow2(B + e.t)

BothNonEmpty == eval_in.retrieved_docs # <<>> /\ eval_in.ground_truth_docs # <<>>

\* C14 as stated: for non-empty lists, the floats satisfy
\* precision * |retrieved| = recall * |groundTruth| = |relevant_retrieved| exactly.
C14_Original ==
    (EvalReturned /\ BothNonEmpty) =>
        /\ ProductIsExact(eval_out.precision, Len(eval_in.retrieved_docs))
        /\ eval_out.precision.num * Len(eval_in.retrieved_docs)
              = Len(eval_out.relevant_retrieved) * eval_out.precision.den
        /\ ProductIsExact(eval_out.recall, Len(eval_in.ground_truth_docs))
        /\ eval_out.recall.num * Len(eval_in.ground_truth_docs)
              = Len(eval_out.relevant_retrieved) * eval_out.recall.den

\* C14 amended: for non-empty lists, precision and recall are the doubles nearest to
\* |relevant_retrieved| / |retrieved| and |relevant_retrieved| / |groundTruth| (within
\* half a unit of the last place), and the float product with the list length is
\* |relevant_retrieved| exactly whenever the quotient is a double exactly.
C14_RoundedQuotients ==
    (EvalReturned /\ BothNonEmpty) =>
        /\ eval_out.precision = Frac(Len(eval_out.relevant_retrieved),
                                     Len(eval_in.retrieved_docs))
        /\ eval_out.recall = Frac(Len(eval_out.relevant_retrieved),
                                  Len(eval_in.ground_truth_docs))
        /\ \A q \in {eval_out.precision, eval_out.recall} :
              q.num > 0 =>
                 /\ 2 * QuotientError(q.num, q.den).delta <= q.den
                 /\ 2 * QuotientError(q.num, q.den).delta >= 0 - q.den
        /\ (eval_out.precision.num > 0
               /\ QuotientError(eval_out.precision.num, eval_out.precision.den).delta = 0)
               => ProductIsExact(eval_out.precision, Len(eval_in.retrieved_docs))
        /\ (eval_out.recall.num > 0
               /\ QuotientError(eval_out.recall.num, eval_out.recall.den).delta = 0)
               => ProductIsExact(eval_out.recall, Len(eval_in.ground_truth_docs))

\* a call whose precision, times the length of the retrieved list, is not the count,
\* with a ground-truth list that holds a document twice
C14_Witness ==
    /\ EvalReturned /\ BothNonEmpty
    /\ eval_out.precision.num > 0
    /\ ~ProductIsExact(eval_out.precision, Len(eval_in.retrieved_docs))
    /\ ~NoDuplicates(eval_in.ground_truth_docs)
    /\ eval_out.recall = [num |-> 1, den |-> 2]

\* C15: for all inputs, 0 <= precision <= 1, 0 <= recall <= 1, 0 <= f1 <= 1, and
\* f1 = 0 if and only if precision = 0 and recall = 0.
C15_UnitRange ==
    EvalReturned =>
        /\ \A q \in {eval_out.precision, eval_out.recall, eval_out.f1_score} :
              q.den > 0 /\ 0 <= q.num /\ q.num <= q.den
        /\ (eval_out.f1_score.num = 0)
              <=> (eval_out.precision.num = 0 /\ eval_out.recall.num = 0)

\* lists with duplicates whose f1 is strictly between 0 and 1
C15_Witness ==
    /\ EvalReturned
    /\ ~NoDuplicates(eval_in.retrieved_docs)
    /\ ~NoDuplicates(eval_in.ground_truth_docs)
    /\ eval_out.precision.num > 0
    /\ 0 < eval_out.f1_score.num
    /\ eval_out.f1_score.num < eval_out.f1_score.den

AiRequested == eval_in.use_ai_rating /\ eval_in.llm.kind # "none"
AiFails ==
    \/ eval_in.llm.kind = "raises"
    \/ ~JsonMatch(eval_in.llm.response).found
    \/ JsonLoads(JsonMatch(eval_in.llm.response).group).q # "end"

\* C18: when the audit is requested and the collaborator raises, or its response holds
\* no brace-delimited object, or the extracted text is malformed JSON,
\* evaluate_retrieval returns normally with ai_rating "N/A", a diagnostic ai_comment
\* and ai_relevance_labels {}.
C18_AuditSentinel ==
    (EvalReturned /\ AiRequested /\ AiFails) =>
        /\ ~eval_out.raised
        /\ eval_out.ai_rating = "N/A"
        /\ eval_out.ai_comment \in {"evaluate_failed", "format_error", "parse_failed"}
        /\ eval_out.ai_relevance_labels = "{}"
        /\ (eval_in.llm.kind = "raises" => eval_out.ai_comment = "evaluate_failed")

\* a response with a brace-delimited text that is not JSON
C18_Witness ==
    /\ EvalReturned /\ AiRequested
    /\ eval_in.llm.kind = "responds"
    /\ JsonMatch(eval_in.llm.response).found
    /\ eval_out.ai_comment = "parse_failed"
    /\ eval_out.ai_rating = "N/A"

BaseMetrics(r) ==
    <<r.raised, r.precision, r.recall, r.f1_score, r.relevant_retrieved, r.missed_docs>>

\* C19: for fixed lists, precision, recall, f1, relevant_retrieved and missed_docs are
\* the same whether use_ai_rating is false, no collaborator is supplied, the
\* collaborator succeeds, raises, or returns text that is not JSON.
C19_BaseMetricsIndependent ==
    EvalReturned =>
        \A use_ai_rating \in BOOLEAN, llm \in SampleLlms :
            BaseMetrics(evaluate_retrieval(eval_in.query, eval_in.retrieved_docs,
                                           eval_in.ground_truth_docs, use_ai_rating, llm,
                                           eval_in.hash_order))
                = BaseMetrics(eval_out)

\* a call whose collaborator raised, with a positive precision and a missed document
C19_Witness ==
    /\ EvalReturned /\ AiRequested
    /\ eval_in.llm.kind = "raises"
    /\ eval_out.ai_rating = "N/A"
    /\ eval_out.precision.num > 0
    /\ eval_out.missed_docs # <<>>

(***************************************************************************)
(* Claims about EvaluationService.batch_evaluate, checked under SpecBatch. *)
(***************************************************************************)
BatchReturned == batch_pc = "return"

\* the result of evaluate_retrieval on case i alone
Alone(i) ==
    evaluate_retrieval(batch_in.test_cases[i].query, batch_in.test_cases[i].retrieved_docs,
                       batch_in.test_cases[i].ground_truth_docs, batch_in.use_ai_rating,
                       batch_in.llms[i], batch_in.hash_order)

RECURSIVE SumAlone(_, _)
SumAlone(field, n) == IF n = 0 THEN Zero ELSE FAdd(SumAlone(field, n - 1), Alone(n)[field])

MeanAlone(field) ==
    IF batch_in.test_cases = <<>> THEN Zero
    ELSE FDiv(SumAlone(field, Len(batch_in.test_cases)), Frac(Len(batch_in.test_cases), 1))

\* C16: total_cases is the number of cases, and each average is the arithmetic mean
\* over the cases of the unrounded per-case metric, rounded to 4 decimal places; all
\* three are 0.0 for the empty list.
C16_MacroAverage ==
    BatchReturned =>
        /\ ~batch_out.raised
        /\ batch_out.total_cases = Len(batch_in.test_cases)
        /\ batch_out.average_precision = Round4(MeanAlone("precision"))
        /\ batch_out.average_recall = Round4(MeanAlone("recall"))
        /\ batch_out.average_f1_score = Round4(MeanAlone("f1_score"))
        /\ batch_in.test_cases = <<>>
               => /\ batch_out.average_precision = 0
                  /\ batch_out.average_recall = 0
                  /\ batch_out.average_f1_score = 0

\* two cases whose mean precision (1/3 + 1) / 2 differs from the pooled 2/4
C16_Witness ==
    /\ BatchReturned
    /\ Len(batch_in.test_cases) = 2
    /\ batch_out.average_precision = 6667
    /\ batch_out.average_precision
          # Round4(PooledOf(EvaluateCases(batch_in.test_cases, batch_in.use_ai_rating,
                                          batch_in.llms, batch_in.hash_order),
                            "precision"))

AloneOutcome(t) ==
    CASE threads[t].op = "split" ->
           [NoOutcome EXCEPT !.chunks = split_text(threads[t].text, 500, 50).result]
      [] threads[t].op = "conf" ->
           [NoOutcome EXCEPT !.confidence = calculate_confidence(threads[t].distances)]
      [] OTHER ->
           [NoOutcome EXCEPT !.evaluation =
               evaluate_retrieval(threads[t].case.query, threads[t].case.retrieved_docs,
                                  threads[t].case.ground_truth_docs, TRUE, RaisingLlm,
                                  ThreadHashOrder)]

\* C20: under any interleaving of concurrent calls of split_text, calculate_confidence
\* and evaluate_retrieval, made through the lazily created shared instances, each call
\* returns what it returns when run alone; the data a call works on is its own, and
\* a shared instance, once created, holds the fixed configuration and nothing else.
C20_CallsIsolated ==
    /\ _text_splitter \in {NoTextSplitter, NewTextSplitter}
    /\ _llm_service \in {NoLlmService, NewLlmService}
    /\ \A t \in 1..Len(threads) :
          /\ threads[t].pc \in {"body", "done"} =>
                /\ threads[t].frame.text = threads[t].text
                /\ threads[t].frame.distances = threads[t].distances
                /\ threads[t].frame.case = threads[t].case
                /\ threads[t].op = "split" => threads[t].text_splitter = NewTextSplitter
                /\ threads[t].op # "split" => threads[t].llm_service = NewLlmService
          /\ threads[t].pc = "done" => threads[t].result = AloneOutcome(t)

\* two threads both found the global unset and both created the text splitter, and
\* both calls, on different texts, have returned their chunks
C20_Witness ==
    /\ Len(threads) >= 2
    /\ threads[1].op = "split" /\ threads[2].op = "split"
    /\ threads[1].created /\ threads[2].created
    /\ threads[1].pc = "done" /\ threads[2].pc = "done"
    /\ threads[1].text # threads[2].text
    /\ Len(threads[1].result.chunks) = 1
    /\ Len(threads[2].result.chunks) = 2

(***************************************************************************)
(* Claims about calculate_confidence, checked under SpecConf.              *)
(***************************************************************************)
ConfReturned == conf_pc = "return"

\* the value the claim gives: base clamped to [0, 1]
C6_Expected(ds) ==
    LET base == Max2(0, Min2(2000, 2000 - MinOf(ds)))
        c == IF Cardinality({ i \in 1..Len(ds) : ds[i] < 500 }) >= 2
             THEN Min2(2000, base + 200) ELSE base
    IN  Round2(c)

\* C6: for a non-empty list, the result is round(c, 2) with base = clamp(1 - min/2, 0, 1)
\* and c = min(1.0, base + 0.1) if two distances are < 0.5, else base.
C6_Formula ==
    (ConfReturned /\ distances # <<>>) => confidence = C6_Expected(distances)

\* C7: the confidence is in [0, 1] for every list of distances.
C7_UnitInterval == ConfReturned => (0 <= confidence /\ confidence <= 100)

\* C8: raising the smallest element of the list never raises the confidence.
C8_Monotone ==
    [][ (/\ ConfReturned
         /\ Len(distances') = Len(distances)
         /\ \E i \in 1..Len(distances) :
               /\ distances[i] = MinOf(distances)
               /\ distances'[i] > distances[i]
               /\ \A j \in 1..Len(distances) : j # i => distances'[j] = distances[j])
        => confidence' <= confidence ]_vars

(***************************************************************************)
(* Claims about the long-paragraph path of split_text, checked under       *)
(* SpecSplit.                                                              *)
(***************************************************************************)
\* the characters of a text that are not whitespace, in order
NonSpace(s) == SelectSeq(s, LAMBDA c : ~IsSpace(c))

\* the merged paragraphs that split_text hands to _split_long_paragraph
LongParagraphs ==
    { i \in 1..Len(split_out.merged_paragraphs) :
        Len(split_out.merged_paragraphs[i]) > chunk_size }

\* the sub-chunks of the i-th merged paragraph before the overlap is added
PreOverlap(i) == PackSentences(split_out.merged_paragraphs[i], chunk_size).chunks

\* C21: for every merged paragraph longer than chunk_size, the non-whitespace
\* characters of the paragraph are, in order, those of the concatenation of its
\* sub-chunks before the overlap is added (nothing is lost, the text after the last
\* terminator and a paragraph without terminator included).
C21_NoTextLost ==
    Returned =>
        \A i \in LongParagraphs :
            NonSpace(Concat(PreOverlap(i))) = NonSpace(split_out.merged_paragraphs[i])

\* the sentences of the i-th merged paragraph, each with its terminator
SentencesOf(i) == CombineSentences(SplitSentences(split_out.merged_paragraphs[i]))

\* the sub-chunks the packing loop gives for a list of sentences, started with an
\* empty running chunk and with the running chunk flushed at the end
PackedChunks(sentences) ==
    LET acc == PackFrom(sentences, 1,
                        [chunks |-> <<>>, current_chunk |-> <<>>, raised |-> FALSE],
                        chunk_size)
    IN  IF acc.current_chunk # <<>>
        THEN Append(acc.chunks, Strip(acc.current_chunk)) ELSE acc.chunks

\* the sentences of the i-th merged paragraph that are longer than chunk_size
OversizedSentences(i) ==
    { j \in 1..Len(SentencesOf(i)) : Len(SentencesOf(i)[j]) > chunk_size }

\* number of windows of chunk_size characters that cover n characters
WindowCount(n) == (n + chunk_size - 1) \div chunk_size

\* C22: in a long paragraph, a sentence longer than chunk_size is force-sliced: the
\* sub-chunks before it are those of the sentences before it with the running chunk
\* flushed, then come windows of exactly chunk_size characters (the last may be
\* shorter, none is empty) whose concatenation is the sentence, then the sub-chunks of
\* the sentences after it packed from an empty running chunk.
C22_ForceSliced ==
    Returned =>
        \A i \in LongParagraphs : \A j \in OversizedSentences(i) :
            LET sentences == SentencesOf(i)
                before == PackedChunks(SubSeq(sentences, 1, j - 1))
                after == PackedChunks(SubSeq(sentences, j + 1, Len(sentences)))
                k == WindowCount(Len(sentences[j]))
                windows == SubSeq(PreOverlap(i), Len(before) + 1, Len(before) + k)
            IN  /\ Len(PreOverlap(i)) = Len(before) + k + Len(after)
                /\ SubSeq(PreOverlap(i), 1, Len(before)) = before
                /\ \A w \in 1..(k - 1) : Len(windows[w]) = chunk_size
                /\ Len(windows[k]) >= 1 /\ Len(windows[k]) <= chunk_size
                /\ Concat(windows) = sentences[j]
                /\ SubSeq(PreOverlap(i), Len(before) + k + 1, Len(PreOverlap(i))) = after

\* a long paragraph with a sentence longer than chunk_size between a shorter sentence,
\* flushed as a sub-chunk of its own, and the end of the paragraph, whose last window
\* is shorter than chunk_size
C22_Witness ==
    /\ Returned
    /\ \E i \in LongParagraphs : \E j \in OversizedSentences(i) :
          /\ j > 1
          /\ PackedChunks(SubSeq(SentencesOf(i), 1, j - 1)) # <<>>
          /\ Len(PreOverlap(i)) >= 3
          /\ Len(PreOverlap(i)[Len(PreOverlap(i))]) < chunk_size

\* a long paragraph that starts with a sentence longer than chunk_size, followed by a
\* sentence packed into a new sub-chunk
C22_WitnessResumed ==
    /\ Returned
    /\ \E i \in LongParagraphs :
          /\ 1 \in OversizedSentences(i)
          /\ PackedChunks(SubSeq(SentencesOf(i), 2, Len(SentencesOf(i)))) # <<>>

\* the non-empty sentences of a paragraph: each piece up to and with a terminator,
\* trimmed (the trim removes a newline terminator, never one of the three marks)
TerminatedSentences(p) ==
    LET at == SelectSeq(Positions(1, Len(p)), LAMBDA k : p[k] \in Terminators)
        pieces == [k \in 1..Len(at) |->
                      Strip(SubSeq(p, IF k = 1 THEN 1 ELSE at[k - 1] + 1, at[k]))]
    IN  SelectSeq(pieces, LAMBDA s : s # <<>>)

\* the sub-chunks C[ci..] are a greedy packing of the sentences S[si..]: a sentence
\* longer than chunk_size takes its windows; otherwise the sub-chunk is the
\* concatenation of the next n >= 1 sentences, none longer than chunk_size, is not
\* longer than chunk_size, and the sentence after them, if any, would not fit
RECURSIVE GreedyFrom(_, _, _, _)
GreedyFrom(S, si, C, ci) ==
    IF ci > Len(C) THEN si > Len(S)
    ELSE IF si > Len(S) THEN FALSE
    ELSE IF Len(S[si]) > chunk_size
    THEN GreedyFrom(S, si + 1, C, ci + WindowCount(Len(S[si])))
    ELSE LET ns == { n \in 1..(Len(S) - si + 1) :
                       Concat(SubSeq(S, si, si + n - 1)) = C[ci] }
         IN  /\ ns # {}
             /\ LET n == CHOOSE n \in ns : TRUE
                IN  /\ \A k \in si..(si + n - 1) : Len(S[k]) <= chunk_size
                    /\ Len(C[ci]) <= chunk_size
                    /\ si + n <= Len(S) => Len(C[ci]) + Len(S[si + n]) > chunk_size
                    /\ GreedyFrom(S, si + n, C, ci + 1)

\* C23: for a paragraph longer than chunk_size, the sub-chunks before the overlap are
\* a greedy packing of its sentences: each is a concatenation of whole consecutive
\* sentences with their terminators, or a force-sliced window; each has length
\* <= chunk_size; a new sub-chunk starts only where the next sentence would not fit.
C23_GreedyPacking ==
    Returned =>
        \A i \in LongParagraphs :
            /\ GreedyFrom(TerminatedSentences(split_out.merged_paragraphs[i]), 1,
                          PreOverlap(i), 1)
            /\ \A k \in 1..Len(PreOverlap(i)) : Len(PreOverlap(i)[k]) <= chunk_size

\* a long paragraph of three sentences that fit, packed as two sentences in one
\* sub-chunk and the third, which would not fit, in the next
C23_Witness ==
    /\ Returned
    /\ \E i \in LongParagraphs :
          LET S == TerminatedSentences(split_out.merged_paragraphs[i])
          IN  /\ Len(S) = 3
              /\ OversizedSentences(i) = {}
              /\ PreOverlap(i) = << S[1] \o S[2], S[3] >>
              /\ S[3][Len(S[3])] = "#"

\* the last n characters of s, all of s when it has fewer
LastChars(s, n) == SubSeq(s, IF Len(s) > n THEN Len(s) - n + 1 ELSE 1, Len(s))

\* the chunks the claim gives for the i-th merged paragraph
EmittedFor(i) ==
    LET paragraph == split_out.merged_paragraphs[i]
        c == PreOverlap(i)
    IN  IF Len(paragraph) <= chunk_size THEN << Strip(paragraph) >>
        ELSE IF chunk_overlap > 0
        THEN [k \in 1..Len(c) |->
                IF k = 1 THEN c[1]
                ELSE LastChars(c[k - 1], chunk_overlap) \o <<" ">> \o c[k]]
        ELSE c

RECURSIVE EmittedUpTo(_)
EmittedUpTo(n) == IF n = 0 THEN <<>> ELSE EmittedUpTo(n - 1) \o EmittedFor(n)

\* C24: the candidate chunks are, paragraph by paragraph in order: for a paragraph of
\* length <= chunk_size the trimmed paragraph with no prefix; for a long paragraph with
\* sub-chunks c_0..c_n and chunk_overlap > 0, e_0 = c_0 and e_i = the last
\* chunk_overlap characters of c_(i-1), a space, and c_i.
C24_Overlap ==
    Returned => split_out.final_chunks = EmittedUpTo(Len(split_out.merged_paragraphs))

\* a long paragraph with two sub-chunks, the first longer than chunk_overlap, emitted
\* with the overlap prefix on the second, and after it a paragraph of length
\* <= chunk_size emitted as it is
C24_Witness ==
    /\ Returned
    /\ chunk_overlap > 0
    /\ Len(split_out.merged_paragraphs) = 2
    /\ LongParagraphs = {1}
    /\ Len(PreOverlap(1)) = 2
    /\ Len(PreOverlap(1)[1]) > chunk_overlap
    /\ Len(split_out.final_chunks) = 3
    /\ Len(split_out.final_chunks[2]) = chunk_overlap + 1 + Len(PreOverlap(1)[2])
    /\ split_out.final_chunks[3] = split_out.merged_paragraphs[2]

(***************************************************************************)
(* Claims about the paragraph merge and the normalization of split_text,   *)
(* checked under SpecSplit.                                                *)
(***************************************************************************)
\* the paragraphs split_text hands to _merge_short_paragraphs
Paragraphs == SplitParagraphs(split_out.cleaned_text)

IsHeadingOrListItem(p) == _is_heading(p) \/ _is_list_item(p)

\* the merge as the claim words it: the next paragraph is joined iff the trimmed
\* length of the buffer is below minMergeLength and it is no heading or list item;
\* otherwise the buffer, unless empty, is flushed
RECURSIVE MergeByTrimmedLength(_, _, _, _)
MergeByTrimmedLength(paragraphs, i, merged, buffer) ==
    LET flushed == IF buffer # <<>> THEN Append(merged, buffer) ELSE merged
    IN  IF i > Len(paragraphs) THEN flushed
        ELSE IF /\ Len(Strip(buffer)) < MinMergeLength
                /\ ~IsHeadingOrListItem(Strip(paragraphs[i]))
        THEN MergeByTrimmedLength(paragraphs, i + 1, merged,
                                  buffer \o <<" ">> \o Strip(paragraphs[i]))
        ELSE MergeByTrimmedLength(paragraphs, i + 1, flushed, Strip(paragraphs[i]))

\* C25: the merged paragraphs are those of the walk that joins the next paragraph onto
\* the buffer iff the buffer's trimmed length is below minMergeLength (50) and the next
\* paragraph is neither a heading nor a list item, and flushes the buffer otherwise.
C25_MergeRule ==
    (Returned /\ text # <<>>) =>
        split_out.merged_paragraphs
            = MergeByTrimmedLength(Paragraphs, 2, <<>>, Strip(Paragraphs[1]))

\* the lines of a text: the pieces between its newlines
LinesOf(s) ==
    LET nl == SelectSeq(Positions(1, Len(s)), LAMBDA k : s[k] = "\n")
    IN  [j \in 1..(Len(nl) + 1) |->
            SubSeq(s, IF j = 1 THEN 1 ELSE nl[j - 1] + 1,
                      IF j = Len(nl) + 1 THEN Len(s) ELSE nl[j] - 1)]

IsNumber(line) == line # <<>> /\ \A k \in 1..Len(line) : line[k] \in Digits

\* C26: the output of _preprocess_text has no carriage return, no two consecutive
\* spaces or tabs, no three consecutive newlines, no line that is solely a number, and
\* no leading or trailing whitespace.
C26_Normalized ==
    LET out == split_out.cleaned_text
        n == Len(out)
    IN  (Returned /\ text # <<>>) =>
            /\ \A k \in 1..n : out[k] # "\r"
            /\ \A k \in 1..(n - 1) : ~(out[k] \in Blanks /\ out[k + 1] \in Blanks)
            /\ \A k \in 1..(n - 2) : ~(out[k] = "\n" /\ out[k + 1] = "\n" /\ out[k + 2] = "\n")
            /\ \A j \in 1..Len(LinesOf(out)) : ~IsNumber(LinesOf(out)[j])
            /\ n > 0 => (~IsSpace(out[1]) /\ ~IsSpace(out[n]))

\* the places of a text where a digit-only line stands between two blank lines that
\* separate two paragraphs: text[k..] is \n\n, digits, \n\n, with text before and after
PageNumberBreaks ==
    { k \in 2..(Len(text) - 5) :
        /\ ~IsSpace(text[k - 1])
        /\ text[k] = "\n" /\ text[k + 1] = "\n"
        /\ LET d == SkipClass(text, k + 2, Digits)
           IN  /\ d > k + 2
               /\ d + 2 <= Len(text)
               /\ text[d] = "\n" /\ text[d + 1] = "\n"
               /\ ~IsSpace(text[d + 2]) }

\* C27: when a digit-only line stands between the blank lines that separate two
\* paragraphs, the normalized text still has a boundary of two or more newlines, and
\* the paragraph split yields at least two paragraphs.
C27_PageNumberKeepsBoundary ==
    (Returned /\ PageNumberBreaks # {}) =>
        /\ HasParagraphBreak(split_out.cleaned_text)
        /\ Len(Paragraphs) >= 2

(***************************************************************************)
(* Claims about the endpoint evaluate_retrieval, checked under SpecRouter. *)
(***************************************************************************)
\* C28: with the LLMService of get_llm_service() as the collaborator, every
\* evaluate_retrieval request with use_ai_rating = true returns ai_rating = "N/A" and
\* ai_relevance_labels = {}, whatever the query and the lists.
C28_AlwaysSentinel ==
    (eval_pc = "return" /\ eval_in.use_ai_rating) =>
        /\ ~eval_out.raised
        /\ eval_out.ai_rating = "N/A"
        /\ eval_out.ai_relevance_labels = "{}"

\* a request with use_ai_rating = true and a relevant retrieved document, answered
\* with the sentinel by the instance the request itself created
C28_Witness ==
    /\ eval_pc = "return"
    /\ eval_in.use_ai_rating
    /\ eval_in.llm = RaisingLlm
    /\ _llm_service = NewLlmService
    /\ eval_out.precision.num > 0
    /\ eval_out.ai_rating = "N/A"
    /\ eval_out.ai_comment = "evaluate_failed"

(***************************************************************************)
(* Claims about medical_chat under any similarity threshold, checked under *)
(* SpecThreshold.  The confidence is a number of hundredths, the threshold *)
(* and the distances are numbers of thousandths.                           *)
(***************************************************************************)
Threshold == settings.SIMILARITY_THRESHOLD
FilteredNonEmpty == ChatReturned /\ Call.raised = "none" /\ Call.filtered_dists # <<>>

\* C29 as stated: when the filtered set is non-empty, every filtered distance is
\* <= 1 - t and the confidence of the response is >= (1 + t) / 2; with t = 0.2 the
\* confidence of a response is 0.0 or >= 0.6.
C29_Original ==
    /\ FilteredNonEmpty =>
          /\ \A k \in 1..Len(Call.filtered_dists) : Call.filtered_dists[k] <= 1000 - Threshold
          /\ 20 * Response.confidence >= 1000 + Threshold
    /\ (ChatReturned /\ Threshold = SIMILARITY_THRESHOLD) =>
          (Response.confidence = 0 \/ Response.confidence >= 60)

\* C29 amended: when the filtered set is non-empty, every filtered distance is
\* <= 1 - t and the confidence of the response is >= (1 + t) / 2 - 0.005 (it is
\* rounded to two decimals); with t = 0.2 the confidence is 0.0 or >= 0.6.
C29_RoundedFloor ==
    /\ FilteredNonEmpty =>
          /\ \A k \in 1..Len(Call.filtered_dists) : Call.filtered_dists[k] <= 1000 - Threshold
          /\ 20 * Response.confidence >= 1000 + Threshold - 10
    /\ (ChatReturned /\ Threshold = SIMILARITY_THRESHOLD) =>
          (Response.confidence = 0 \/ Response.confidence >= 60)

\* a response under the threshold 0.25 whose nearest filtered hit is at distance 0.75:
\* the confidence 0.62 is below (1 + t) / 2 = 0.625
C29_Witness ==
    /\ FilteredNonEmpty
    /\ Threshold = 250
    /\ Call.filtered_dists[1] = 750
    /\ Response.confidence = 62

(***************************************************************************)
(* Claims about upload_document, checked under SpecUpload.                 *)
(***************************************************************************)
\* the chunks split_text gives for the text of upload u with the shared splitter
ChunksOf(u) == split_text(uploads[u].text_content, DefaultChunkSize, DefaultChunkOverlap).result

\* the entries of the collection that carry the document id of upload u
EntriesOf(u) == SelectSeq(collection, LAMBDA e : e.metadata.id = uploads[u].doc_id)

\* the state part of C30
IngestionState ==
    /\ \A k \in 1..Len(collection) : collection[k].metadata.id \in IdsOf(db.documents)
    /\ \A u \in 1..Len(uploads) :
          /\ uploads[u].pc = "index" => uploads[u].doc_id \in IdsOf(db.documents)
          /\ (uploads[u].pc = "done" /\ uploads[u].index_raised) =>
                /\ uploads[u].response.status = 200
                /\ uploads[u].response.paragraphs_count = 0
                /\ uploads[u].doc_id \in IdsOf(db.documents)
          /\ (uploads[u].pc = "done" /\ uploads[u].response.status = 200
                /\ ~uploads[u].index_raised) =>
                /\ uploads[u].response.paragraphs_count = Len(ChunksOf(u))
                /\ Len(EntriesOf(u)) = Len(ChunksOf(u))
                /\ \A i \in 1..Len(ChunksOf(u)) :
                      /\ EntriesOf(u)[i].id = uploads[u].doc_id \o "_" \o ToString(i - 1)
                      /\ EntriesOf(u)[i].document = ChunksOf(u)[i]

\* the step part of C30
IngestionStep ==
    /\ db.documents \subseteq db'.documents
    /\ \A u \in 1..Len(uploads) :
          (collection' # collection /\ uploads'[u] # uploads[u]) =>
              uploads[u].doc_id \in IdsOf(db.documents)

\* C30: the document is committed to the relational store before chunking and
\* indexing are attempted; when they raise, the upload still returns success with
\* paragraphs_count = 0 and the document stays committed; on success the chunks are
\* indexed under the ids doc_id_0 .. doc_id_(n-1) in chunk order with metadata
\* id = doc_id; no document is ever removed, and the vector index never holds a
\* chunk whose document is absent from the relational store.
C30_IngestionOrder == [](IngestionState) /\ [][IngestionStep]_vars

\* two uploads done: one indexed its two chunks, the other returned success with no
\* paragraphs after its indexing raised, and both documents are in the store
C30_Witness ==
    /\ \A u \in 1..Len(uploads) : uploads[u].pc = "done" /\ uploads[u].response.status = 200
    /\ \E u \in 1..Len(uploads) : ~uploads[u].index_raised /\ Len(EntriesOf(u)) = 2
    /\ \E u \in 1..Len(uploads) :
          /\ uploads[u].index_raised
          /\ EntriesOf(u) = <<>>
          /\ Len(ChunksOf(u)) > 0
    /\ Cardinality(db.documents) >= 2

====
